---- MODULE Spec2Model ----
(***************************************************************************)
(* QuantVault portfolio engine: the position / tax-lot ledger kept by the  *)
(* transaction, position, import and broker routes, the what-if            *)
(* simulation of the analysis routes, and the statistics, allocations and  *)
(* correlation matrix of the calculation service behind the simulation,    *)
(* the dashboard, the breakdown and the risk analysis.                     *)
(*                                                                         *)
(* Numbers.  Quantities and prices of requests are small naturals.  An     *)
(* average cost basis is a quotient, kept as an exact fraction <<n, d>>    *)
(* in lowest terms; d = 0 encodes the non-finite results of a JavaScript   *)
(* division (<<0, 0>> is NaN, <<1, 0>> is Infinity).  A number a square    *)
(* root went into is kept as c * sqrt(r).  Rounding of IEEE doubles and    *)
(* of the Decimal column is not modelled.                                  *)
(*                                                                         *)
(* The Transaction table is append-only and no modelled handler reads it:  *)
(* its inserts are left out, and so are the replies of the ledger routes.  *)
(* A request that is refused (400, 404) is a step that changes no table.   *)
(* There is one user and one portfolio.                                    *)
(***************************************************************************)
EXTENDS Integers, Sequences, FiniteSets, TLC

\* ------------------------------------------------------------------ bounds
\* rows ever inserted in TaxLot and in Position, rows of one import request
MaxLots == 2
MaxPos == 1
MaxRows == 1

\* the values requests are made of
Tickers == {"AAA"}
Qtys == {1, 2}
Prices == {1, 3}
Dates == {1, 2}

\* ------------------------------------------------------- exact fractions
RECURSIVE GCD(_, _)
GCD(a, b) == IF b = 0 THEN a ELSE GCD(b, a % b)

Abs(x) == IF x < 0 THEN -x ELSE x

\* the whole of what is still to sell, whatever the lot has left
TakeAll(a, b) == b

Min(a, b) == IF a < b THEN a ELSE b

NaN == <<0, 0>>
Infinity == <<1, 0>>

IsFinite(r) == r[2] # 0

Frac(n, d) ==
  IF d = 0 THEN (IF n = 0 THEN NaN ELSE Infinity)
  ELSE LET s == IF d < 0 THEN -1 ELSE 1
           g == GCD(Abs(n), Abs(d))
       IN  <<(s * n) \div g, (s * d) \div g>>

Num(i) == <<i, 1>>

\* a * b, a + b, a / b of JavaScript numbers; common factors are cancelled
\* before a product is taken
RMul(a, b) ==
  IF a = NaN \/ b = NaN THEN NaN
  ELSE IF ~IsFinite(a) \/ ~IsFinite(b)
       THEN (IF a[1] = 0 \/ b[1] = 0 THEN NaN ELSE Infinity)
       ELSE LET g == GCD(Abs(a[1]), b[2])
                h == GCD(Abs(b[1]), a[2])
            IN  Frac((a[1] \div g) * (b[1] \div h),
                     (a[2] \div h) * (b[2] \div g))

RAdd(a, b) ==
  IF a = NaN \/ b = NaN THEN NaN
  ELSE IF ~IsFinite(a) \/ ~IsFinite(b) THEN Infinity
       ELSE LET g == GCD(a[2], b[2])
            IN  Frac(a[1] * (b[2] \div g) + b[1] * (a[2] \div g),
                     (a[2] \div g) * b[2])

RDiv(a, b) ==
  IF a = NaN \/ b = NaN THEN NaN
  ELSE IF ~IsFinite(a) THEN (IF IsFinite(b) THEN Infinity ELSE NaN)
       ELSE IF ~IsFinite(b) THEN Num(0)
            ELSE IF b[1] = 0 THEN Frac(a[1], 0)
                 ELSE LET g == GCD(Abs(a[1]), Abs(b[1]))
                          h == GCD(a[2], b[2])
                      IN  Frac((a[1] \div g) * (b[2] \div h),
                               (a[2] \div h) * (b[1] \div g))

\* ------------------------------------------------------------------ state
\* A Position row is modelled by its id, ticker, quantity and avgCostBasis.
\* Its market columns (currentPrice, marketValue, ...) and the broker
\* connection row are written by the handlers below but read by none of
\* them, and are left out.
VARIABLES
  positions,    \* rows of the Position table
  lots,         \* rows of the TaxLot table
  nextPosId,    \* next Position id
  nextLotId,    \* next TaxLot id
  pc,           \* position of each in-flight SELL handler
  req,          \* the request each in-flight SELL handler is serving
  snap,         \* what each in-flight SELL handler read at its findFirst
  todo,         \* lot updates each in-flight SELL handler still has to write
  start,        \* the tables as they were before the concurrent handlers ran
  sim,          \* input and output of one what-if simulation
  analysis      \* input and output of one analysis request

vars == <<positions, lots, nextPosId, nextLotId,
          pc, req, snap, todo, start, sim, analysis>>

tables == <<positions, lots, nextPosId, nextLotId>>

handlers == <<pc, req, snap, todo, start>>

Procs == {1, 2}

\* ------------------------------------------------------- table operations
PositionRow(id, ticker, quantity, avgCostBasis) ==
  [id |-> id, ticker |-> ticker, quantity |-> quantity,
   avgCostBasis |-> avgCostBasis]

\* TaxLot row; soldQuantity defaults to 0.  The costBasis column is written
\* from the request and read by no handler of the ledger: it is left out.
TaxLotRow(id, positionId, quantity, costBasis, purchaseDate) ==
  [id |-> id, positionId |-> positionId, quantity |-> quantity,
   soldQuantity |-> 0, purchaseDate |-> purchaseDate]

HasPosition(ps, id) == \E p \in ps : p.id = id
PositionById(ps, id) == CHOOSE p \in ps : p.id = id

HasTicker(ps, ticker) == \E p \in ps : p.ticker = ticker
PositionByTicker(ps, ticker) == CHOOSE p \in ps : p.ticker = ticker

LotsOf(ls, positionId) == {l \in ls : l.positionId = positionId}

\* prisma.position.update({ where: { id }, data })
UpdatePosition(ps, id, quantity, avgCostBasis) ==
  {IF p.id = id
     THEN [p EXCEPT !.quantity = quantity, !.avgCostBasis = avgCostBasis]
     ELSE p : p \in ps}

\* prisma.position.delete({ where: { id } }): the position row goes.  The
\* TaxLot model and its relation to Position are not part of the sources;
\* by the specification the ledger is append-only: the tax lots stay
DeletePosition(ps, id) == {p \in ps : p.id # id}

RECURSIVE SumRemaining(_)
SumRemaining(ls) ==
  IF ls = {} THEN 0
  ELSE LET l == CHOOSE x \in ls : TRUE
       IN  (l.quantity - l.soldQuantity) + SumRemaining(ls \ {l})

RECURSIVE SumSold(_)
SumSold(ls) ==
  IF ls = {} THEN 0
  ELSE LET l == CHOOSE x \in ls : TRUE
       IN  l.soldQuantity + SumSold(ls \ {l})

\* ------------------------------------------------- weighted average cost
\* the mean of the two prices, whatever the quantities
UnweightedAvgCost(oldQty, oldAvg, addQty, addCost) ==
  RDiv(RAdd(oldAvg, Num(addCost)), Num(2))

\* newTotalCost / newTotalQty
NewAvgCost(oldQty, oldAvg, addQty, addCost) ==
  RDiv(RAdd(RMul(Num(oldQty), oldAvg), Num(addQty * addCost)),
       Num(oldQty + addQty))

\* ------------------------------------------------------------- FIFO sale
\* lots: { orderBy: { purchaseDate: 'asc' } }: every order of the rows that
\* is ascending in purchaseDate (the order of equal dates is not fixed)
OrderedLots(ls) ==
  {o \in [1..Cardinality(ls) -> ls] :
     /\ \A i, j \in 1..Cardinality(ls) : i # j => o[i] # o[j]
     /\ \A i, j \in 1..Cardinality(ls) :
          i < j => o[i].purchaseDate <= o[j].purchaseDate}

\* the value written to soldQuantity: the lot as it was read, plus the sale
NewSoldQuantity(readSold, sellFromThisLot) ==
  readSold + sellFromThisLot

\* the taxLot.update calls of processFIFOSale, in order
RECURSIVE processFIFOSale(_, _)
processFIFOSale(ord, remainingToSell) ==
  IF ord = <<>> \/ remainingToSell <= 0 THEN <<>>
  ELSE LET lot == Head(ord)
           availableQty == lot.quantity - lot.soldQuantity
       IN  IF availableQty <= 0
             THEN processFIFOSale(Tail(ord), remainingToSell)
             ELSE LET sellFromThisLot == Min(availableQty, remainingToSell)
                  IN  <<[id |-> lot.id, readSold |-> lot.soldQuantity,
                         sell |-> sellFromThisLot]>>
                      \o processFIFOSale(Tail(ord),
                                         remainingToSell - sellFromThisLot)

\* an update that drops the lot it has consumed to the end
UpdateLotDropConsumed(ls, u) ==
  {l \in {IF m.id = u.id
             THEN [m EXCEPT !.soldQuantity =
                     NewSoldQuantity(u.readSold, u.sell)]
             ELSE m : m \in ls} :
     l.id # u.id \/ l.soldQuantity < l.quantity}

\* prisma.taxLot.update({ where: { id }, data: { soldQuantity } })
UpdateLot(ls, u) ==
  {IF l.id = u.id
     THEN [l EXCEPT !.soldQuantity =
             NewSoldQuantity(u.readSold, u.sell)]
     ELSE l : l \in ls}

RECURSIVE UpdateLots(_, _)
UpdateLots(ls, us) ==
  IF us = <<>> THEN ls ELSE UpdateLots(UpdateLot(ls, Head(us)), Tail(us))

\* a guard that lets a sale of one share too many through
InsufficientSharesOffByOne(quantity, position) ==
  quantity > position.quantity + 1

\* the SELL branch's guard: quantity > Number(position.quantity)
InsufficientShares(quantity, position) == quantity > position.quantity

\* prisma.position.update({ where: { id }, data: { quantity } })
UpdateQuantity(ps, id, quantity) ==
  {IF p.id = id THEN [p EXCEPT !.quantity = quantity] ELSE p : p \in ps}

\* a position write that takes the sale off the quantity now stored
SellPositionWriteStored(ps, read, quantity) ==
  LET newQty == PositionById(ps, read.id).quantity - quantity
  IN  IF newQty = 0
        THEN DeletePosition(ps, read.id)
        ELSE UpdateQuantity(ps, read.id, newQty)

\* the position write of the SELL branch, from the position as it was read
SellPositionWrite(ps, read, quantity) ==
  LET newQty == read.quantity - quantity
  IN  IF newQty = 0
        THEN DeletePosition(ps, read.id)
        ELSE UpdateQuantity(ps, read.id, newQty)

\* --------------------------------------------------------------- initial
NoRequest == [positionId |-> 0, quantity |-> 0]

NoSnapshot == [position |-> PositionRow(0, "", 0, Num(0)), lots |-> <<>>]

IdleHandlers ==
  /\ pc = [p \in Procs |-> "idle"]
  /\ req = [p \in Procs |-> NoRequest]
  /\ snap = [p \in Procs |-> NoSnapshot]
  /\ todo = [p \in Procs |-> <<>>]

NoSim ==
  [base |-> <<>>, history |-> <<>>, changes |-> <<>>, result |-> <<>>,
   after |-> <<>>, reply |-> <<>>, done |-> FALSE]

NoAnalysis ==
  [route |-> "none", holdings |-> <<>>, history |-> <<>>, changes |-> <<>>,
   lots |-> <<>>, currentPrice |-> 0, tickers |-> <<>>, result |-> <<>>,
   reply |-> <<>>, done |-> FALSE]

Init ==
  /\ positions = {}
  /\ lots = {}
  /\ nextPosId = 1
  /\ nextLotId = 1
  /\ IdleHandlers
  /\ start = [positions |-> {}, lots |-> {}]
  /\ sim = NoSim
  /\ analysis = NoAnalysis

\* ------------------------------------------------------ positions routes
\* POST /positions: 400 when the ticker has a position; else the position
\* and its first lot
CreatePosition(ticker, quantity, avgCostBasis, purchaseDate) ==
  /\ IF HasTicker(positions, ticker)
       THEN UNCHANGED tables
       ELSE /\ nextPosId <= MaxPos
            /\ nextLotId <= MaxLots
            /\ positions' = positions \cup
                 {PositionRow(nextPosId, ticker, quantity, Num(avgCostBasis))}
            /\ lots' = lots \cup
                 {TaxLotRow(nextLotId, nextPosId, quantity, avgCostBasis,
                            purchaseDate)}
            /\ nextPosId' = nextPosId + 1
            /\ nextLotId' = nextLotId + 1
  /\ UNCHANGED <<handlers, sim, analysis>>

\* POST /positions/:id/lots: 404 without the position; else the lot, then
\* the position's new totals
AddLot(id, quantity, costBasis, purchaseDate) ==
  /\ IF ~HasPosition(positions, id)
       THEN UNCHANGED tables
       ELSE LET position == PositionById(positions, id)
                newTotalQty == position.quantity + quantity
                newAvgCost == NewAvgCost(position.quantity,
                                         position.avgCostBasis,
                                         quantity, costBasis)
            IN  /\ nextLotId <= MaxLots
                /\ nextLotId' = nextLotId + 1
                /\ UNCHANGED nextPosId
                /\ lots' = lots \cup
                     {TaxLotRow(nextLotId, id, quantity, costBasis,
                                purchaseDate)}
                /\ positions' = UpdatePosition(positions, id, newTotalQty,
                                               newAvgCost)
  /\ UNCHANGED <<handlers, sim, analysis>>

\* DELETE /positions/:id
RemovePosition(id) ==
  /\ IF ~HasPosition(positions, id)
       THEN UNCHANGED positions
       ELSE positions' = DeletePosition(positions, id)
  /\ UNCHANGED <<lots, nextPosId, nextLotId, handlers, sim, analysis>>

\* --------------------------------------------------- transactions routes
\* POST /transactions, type SELL: 404 without the position, 400 when the
\* quantity exceeds the position's; else the FIFO lot updates, then the
\* position's new quantity (or its deletion)
Sell(positionId, quantity) ==
  /\ UNCHANGED <<nextPosId, nextLotId, handlers, sim, analysis>>
  /\ IF ~HasPosition(positions, positionId)
       THEN UNCHANGED <<positions, lots>>
       ELSE LET position == PositionById(positions, positionId)
            IN  IF InsufficientShares(quantity, position)
                  THEN UNCHANGED <<positions, lots>>
                  ELSE /\ positions' = SellPositionWrite(positions, position,
                                                         quantity)
                       /\ \E ord \in OrderedLots(LotsOf(lots, positionId)) :
                            lots' = UpdateLots(lots,
                                               processFIFOSale(ord, quantity))

\* POST /transactions, type BUY or DIVIDEND_REINVEST (one branch): 404
\* without the position; else the lot, then the position's new totals
Buy(positionId, quantity, price, executionDate) ==
  /\ IF ~HasPosition(positions, positionId)
       THEN UNCHANGED tables
       ELSE LET position == PositionById(positions, positionId)
                newTotalQty == position.quantity + quantity
                newAvgCost == NewAvgCost(position.quantity,
                                         position.avgCostBasis,
                                         quantity, price)
            IN  /\ nextLotId <= MaxLots
                /\ nextLotId' = nextLotId + 1
                /\ UNCHANGED nextPosId
                /\ lots' = lots \cup
                     {TaxLotRow(nextLotId, positionId, quantity, price,
                                executionDate)}
                /\ positions' = UpdatePosition(positions, positionId,
                                               newTotalQty, newAvgCost)
  /\ UNCHANGED <<handlers, sim, analysis>>

\* POST /transactions, type DIVIDEND: only the transaction row is written
Dividend(positionId) ==
  UNCHANGED vars

\* ----------------------------------------------------------- import routes
\* the tables as a loop over rows carries them
Tables(ps, ls, np, nl) ==
  [positions |-> ps, lots |-> ls, nextPosId |-> np, nextLotId |-> nl]

ImportRow(ticker, quantity, costBasis, purchaseDate) ==
  [ticker |-> ticker, quantity |-> quantity, costBasis |-> costBasis,
   purchaseDate |-> purchaseDate]

\* the rows a request can carry, and one row the checks refuse (quantity 0)
ImportRows ==
  {ImportRow(t, q, c, d) : t \in Tickers, q \in Qtys, c \in Prices,
                           d \in Dates}
  \cup {ImportRow(t, 0, 1, 1) : t \in Tickers}

\* the lists of 1..MaxRows elements of S
Batches(S) == UNION {[1..n -> S] : n \in 1..MaxRows}

\* the ticker exists: new totals, then the lot (and the transaction row)
AddToExisting(st, row) ==
  LET existingPosition == PositionByTicker(st.positions, row.ticker)
      newTotalQty == existingPosition.quantity + row.quantity
      newAvgCost == NewAvgCost(existingPosition.quantity,
                               existingPosition.avgCostBasis,
                               row.quantity, row.costBasis)
  IN  Tables(UpdatePosition(st.positions, existingPosition.id, newTotalQty,
                            newAvgCost),
             st.lots \cup {TaxLotRow(st.nextLotId, existingPosition.id,
                                     row.quantity, row.costBasis,
                                     row.purchaseDate)},
             st.nextPosId, st.nextLotId + 1)

\* the ticker is new: a position with its first lot (and transaction row)
CreateFromRow(st, row) ==
  Tables(st.positions \cup
           {PositionRow(st.nextPosId, row.ticker, row.quantity,
                        Num(row.costBasis))},
         st.lots \cup {TaxLotRow(st.nextLotId, st.nextPosId, row.quantity,
                                 row.costBasis, row.purchaseDate)},
         st.nextPosId + 1, st.nextLotId + 1)

\* processImportRow; a row that throws leaves the tables as they were
processImportRow(st, row) ==
  IF row.quantity <= 0 \/ row.costBasis <= 0 THEN st
  ELSE IF HasTicker(st.positions, row.ticker)
         THEN AddToExisting(st, row)
         ELSE CreateFromRow(st, row)

\* the tables after rows 1..n, in order
RECURSIVE ProcessRows(_, _, _)
ProcessRows(st, rows, n) ==
  IF n = 0 THEN st
  ELSE processImportRow(ProcessRows(st, rows, n - 1), rows[n])

\* every row that passes the checks writes one lot
Accepted(rows) ==
  {i \in 1..Len(rows) : rows[i].quantity > 0 /\ rows[i].costBasis > 0}

\* the bound on TaxLot rows leaves room for the lots of the request
RoomFor(rows) == nextLotId + Cardinality(Accepted(rows)) <= MaxLots + 1

\* the tables the request leaves are within the bounds
WithinBounds(st) ==
  st.nextPosId <= MaxPos + 1 /\ st.nextLotId <= MaxLots + 1

\* the tables as the loop over the rows leaves them
Commit(st) ==
  /\ positions' = st.positions
  /\ lots' = st.lots
  /\ nextPosId' = st.nextPosId
  /\ nextLotId' = st.nextLotId

Current == Tables(positions, lots, nextPosId, nextLotId)

\* POST /import/csv
ImportCSV(rows) ==
  /\ RoomFor(rows)
  /\ \E st \in {ProcessRows(Current, rows, Len(rows))} :
       /\ WithinBounds(st)
       /\ Commit(st)
  /\ UNCHANGED <<handlers, sim, analysis>>

\* POST /import/manual: every entry is validated before any is processed
ImportManual(entries) ==
  /\ IF \E i \in 1..Len(entries) :
          entries[i].quantity <= 0 \/ entries[i].costBasis <= 0
       THEN UNCHANGED tables
       ELSE /\ RoomFor(entries)
            /\ \E st \in {ProcessRows(Current, entries, Len(entries))} :
                 /\ WithinBounds(st)
                 /\ Commit(st)
  /\ UNCHANGED <<handlers, sim, analysis>>

\* ------------------------------------------------------------ broker routes
BrokerPosition(ticker, quantity, avgCostBasis) ==
  [ticker |-> ticker, quantity |-> quantity, avgCostBasis |-> avgCostBasis]

\* what fetchBrokerPositions can return
BrokerPositions ==
  {BrokerPosition(t, q, c) : t \in Tickers, q \in Qtys, c \in Prices}

\* the broker's figures added to the position by the weighted-average rule
SyncedAvgCostWeighted(existing, pos) ==
  NewAvgCost(existing.quantity, existing.avgCostBasis, pos.quantity,
             pos.avgCostBasis)

\* the avgCostBasis the sync writes to an existing position
SyncedAvgCost(existing, pos) == Num(pos.avgCostBasis)

\* one turn of the sync loop: update the existing position or create one
\* (st: the Position table and its next id); no tax lot and no transaction
\* row is written
SyncPosition(st, pos) ==
  IF HasTicker(st.positions, pos.ticker)
    THEN LET existing == PositionByTicker(st.positions, pos.ticker)
         IN  [st EXCEPT !.positions =
                UpdatePosition(st.positions, existing.id, pos.quantity,
                               SyncedAvgCost(existing, pos))]
    ELSE [positions |-> st.positions \cup
                          {PositionRow(st.nextPosId, pos.ticker, pos.quantity,
                                       Num(pos.avgCostBasis))},
          nextPosId |-> st.nextPosId + 1]

\* the Position table after entries 1..n, in order
RECURSIVE SyncPositions(_, _, _)
SyncPositions(st, list, n) ==
  IF n = 0 THEN st
  ELSE SyncPosition(SyncPositions(st, list, n - 1), list[n])

\* POST /broker/:connectionId/sync when fetchBrokerPositions throws
BrokerSyncFails ==
  UNCHANGED vars

\* POST /broker/:connectionId/sync with the positions the broker returned
BrokerSync(list) ==
  /\ UNCHANGED <<lots, nextLotId, handlers, sim, analysis>>
  /\ \E st \in {SyncPositions([positions |-> positions,
                               nextPosId |-> nextPosId], list, Len(list))} :
       /\ st.nextPosId <= MaxPos + 1
       /\ positions' = st.positions
       /\ nextPosId' = st.nextPosId

\* ------------------------------------------------------------ the ledger
PosIds == 1..MaxPos

LedgerNext ==
  \/ \E t \in Tickers, q \in Qtys, c \in Prices, d \in Dates :
        CreatePosition(t, q, c, d)
  \/ \E id \in PosIds, q \in Qtys, c \in Prices, d \in Dates :
        AddLot(id, q, c, d)
  \/ \E id \in PosIds : RemovePosition(id)
  \/ \E id \in PosIds, q \in Qtys : Sell(id, q)
  \/ \E id \in PosIds, q \in Qtys, c \in Prices, d \in Dates :
        Buy(id, q, c, d)
  \/ \E id \in PosIds : Dividend(id)
  \/ \E rows \in Batches(ImportRows) : ImportCSV(rows)
  \/ \E entries \in Batches(ImportRows) : ImportManual(entries)
  \/ BrokerSyncFails
  \/ \E list \in Batches(BrokerPositions) : BrokerSync(list)

Spec == Init /\ [][LedgerNext]_vars

\* ------------------------------------------- two SELL requests in flight
\* The handler of POST /transactions awaits each database call and holds no
\* transaction or lock: between two of its calls the other handler may run.
\* Its steps are the read (findFirst with the lots), one taxLot.update per
\* consumed lot, the position write, and the transaction insert.

Range(f) == {f[i] : i \in DOMAIN f}

\* quantity, soldQuantity and purchaseDate a stored lot can have
LotShapes ==
  UNION {{[quantity |-> q, soldQuantity |-> sd, purchaseDate |-> d] :
            sd \in 0..q, d \in Dates} : q \in Qtys}

\* one open position, reconciled with its lots, and two idle handlers
InitConc ==
  /\ \E n \in 1..MaxLots : \E shape \in [1..n -> LotShapes] :
       /\ lots = {[id |-> i, positionId |-> 1,
                   quantity |-> shape[i].quantity,
                   soldQuantity |-> shape[i].soldQuantity,
                   purchaseDate |-> shape[i].purchaseDate] : i \in 1..n}
       /\ nextLotId = n + 1
  /\ SumRemaining(lots) > 0
  /\ positions = {PositionRow(1, "AAA", SumRemaining(lots), Num(1))}
  /\ nextPosId = 2
  /\ IdleHandlers
  /\ start = [positions |-> positions, lots |-> lots]
  /\ sim = NoSim
  /\ analysis = NoAnalysis

\* findFirst and the checks: 404, 400, or the plan of lot updates
Read(p) ==
  /\ pc[p] = "idle"
  /\ \E id \in PosIds, quantity \in Qtys :
       /\ req' = [req EXCEPT ![p] = [positionId |-> id,
                                      quantity |-> quantity]]
       /\ IF ~HasPosition(positions, id)
            THEN /\ pc' = [pc EXCEPT ![p] = "rejected"]
                 /\ UNCHANGED <<snap, todo>>
            ELSE LET position == PositionById(positions, id)
                 IN  IF InsufficientShares(quantity, position)
                       THEN /\ pc' = [pc EXCEPT ![p] = "rejected"]
                            /\ UNCHANGED <<snap, todo>>
                       ELSE \E ord \in OrderedLots(LotsOf(lots, id)) :
                              /\ snap' = [snap EXCEPT ![p] =
                                   [position |-> position, lots |-> ord]]
                              /\ todo' = [todo EXCEPT ![p] =
                                   processFIFOSale(ord, quantity)]
                              /\ pc' = [pc EXCEPT ![p] =
                                   IF processFIFOSale(ord, quantity) = <<>>
                                     THEN "position" ELSE "lots"]
  /\ UNCHANGED <<tables, start, sim, analysis>>

\* the next taxLot.update of processFIFOSale
WriteLot(p) ==
  /\ pc[p] = "lots"
  /\ lots' = UpdateLot(lots, Head(todo[p]))
  /\ todo' = [todo EXCEPT ![p] = Tail(todo[p])]
  /\ pc' = [pc EXCEPT ![p] =
              IF Tail(todo[p]) = <<>> THEN "position" ELSE "lots"]
  /\ UNCHANGED <<positions, nextPosId, nextLotId, req, snap, start, sim,
                 analysis>>

\* position.update or position.delete, from the quantity that was read; the
\* call throws when the row is gone
WritePosition(p) ==
  /\ pc[p] = "position"
  /\ IF HasPosition(positions, snap[p].position.id)
       THEN /\ positions' = SellPositionWrite(positions, snap[p].position,
                                              req[p].quantity)
            /\ pc' = [pc EXCEPT ![p] = "record"]
       ELSE /\ pc' = [pc EXCEPT ![p] = "failed"]
            /\ UNCHANGED positions
  /\ UNCHANGED <<lots, nextPosId, nextLotId, req, snap, todo, start, sim,
                 analysis>>

\* transaction.create and the 201 reply.  The Transaction model's relation
\* to Position is not part of the sources: with the position row gone the
\* insert may go through or throw.
Record(p) ==
  /\ pc[p] = "record"
  /\ \E outcome \in IF HasPosition(positions, snap[p].position.id)
                      THEN {"done"} ELSE {"done", "failed"} :
       pc' = [pc EXCEPT ![p] = outcome]
  /\ UNCHANGED <<tables, req, snap, todo, start, sim, analysis>>

ConcNext ==
  \/ \E p \in Procs : Read(p)
  \/ \E p \in Procs : WriteLot(p)
  \/ \E p \in Procs : WritePosition(p)
  \/ \E p \in Procs : Record(p)

SpecConc == InitConc /\ [][ConcNext]_vars

\* what one accepted SELL, run alone, can leave in the tables
SellOutcomes(t, id, quantity) ==
  IF ~HasPosition(t.positions, id) THEN {}
  ELSE LET position == PositionById(t.positions, id)
       IN  IF InsufficientShares(quantity, position) THEN {}
           ELSE {[positions |-> SellPositionWrite(t.positions, position,
                                                   quantity),
                  lots |-> UpdateLots(t.lots, processFIFOSale(ord, quantity))] :
                   ord \in OrderedLots(LotsOf(t.lots, id))}

\* what two accepted SELLs leave when the second runs after the first
SerialOutcomes(t, id, first, second) ==
  UNION {SellOutcomes(m, id, second) : m \in SellOutcomes(t, id, first)}

\* ------------------------------------------------------- engine statistics
\* CalculationService: the statistics of a snapshot series.  A series is the
\* sequence of the snapshots' totalValue (naturals) in the order the caller
\* supplies it; a return is an exact fraction, negative or not.

\* a - b and a > b of JavaScript numbers; the sign of an infinite value is
\* not kept, and no difference or comparison of the engine has one
RSub(a, b) ==
  IF a = NaN \/ b = NaN THEN NaN
  ELSE IF ~IsFinite(a) \/ ~IsFinite(b)
       THEN (IF ~IsFinite(a) /\ ~IsFinite(b) THEN NaN ELSE Infinity)
       ELSE LET g == GCD(a[2], b[2])
            IN  Frac(a[1] * (b[2] \div g) - b[1] * (a[2] \div g),
                     (a[2] \div g) * b[2])

RGt(a, b) ==
  IF a = NaN \/ b = NaN THEN FALSE
  ELSE IF ~IsFinite(b) THEN FALSE
       ELSE IF ~IsFinite(a) THEN TRUE
            ELSE a[1] * b[2] > b[1] * a[2]

\* Math.sqrt is irrational on most fractions: a number that a square root
\* went into is kept exactly as c * sqrt(r), with c and r >= 0 fractions; a
\* plain number x is x * sqrt(1), and zero is always 0 * sqrt(1)
Surd(c, r) ==
  IF c = Num(0) \/ r = Num(0) THEN [c |-> Num(0), r |-> Num(1)]
  ELSE [c |-> c, r |-> r]

Plain(x) == [c |-> x, r |-> Num(1)]

Sqrt(x) == Surd(Num(1), x)

SurdMul(a, b) == Surd(RMul(a.c, b.c), RMul(a.r, b.r))

Scale(a, k) == Surd(RMul(a.c, k), a.r)

\* x / a for a plain x: x / (c * sqrt(r)) = (x / (c * r)) * sqrt(r)
DivBySurd(x, a) ==
  IF a.c = Num(0) THEN Plain(RDiv(x, Num(0)))
  ELSE Surd(RDiv(x, RMul(a.c, a.r)), a.r)

\* a - b; the engine subtracts numbers that share their square root
SurdSub(a, b) ==
  IF a.r = b.r THEN Surd(RSub(a.c, b.c), a.r)
  ELSE IF b.c = Num(0) THEN a
       ELSE Surd(RSub(Num(0), b.c), b.r)

IsFiniteSurd(a) == IsFinite(a.c) /\ IsFinite(a.r)

RISK_FREE_RATE == Frac(1, 20)

\* Math.random(): the draws of one request, in the order they are made.
\* A stream repeats two draws: all draws 0, or 0 and 1/2 in turn
RandomStreams == {[odd |-> Num(0), even |-> r] : r \in {Num(0), Frac(1, 2)}}

Draw(rnd, k) == IF k % 2 = 1 THEN rnd.odd ELSE rnd.even

RECURSIVE Sum(_, _)
Sum(xs, n) == IF n = 0 THEN Num(0) ELSE RAdd(Sum(xs, n - 1), xs[n])

\* the loop of calculateReturnsFromSnapshots up to the pair (n - 1, n):
\* snapshots[n] is the previous value, snapshots[n - 1] the current one
RECURSIVE ReturnsUpTo(_, _)
ReturnsUpTo(snapshots, n) ==
  IF n < 2 THEN <<>>
  ELSE LET prev == snapshots[n]
           curr == snapshots[n - 1]
           returns == ReturnsUpTo(snapshots, n - 1)
       IN  IF prev > 0 THEN Append(returns, Frac(curr - prev, prev))
           ELSE returns

calculateReturnsFromSnapshots(snapshots) ==
  IF Len(snapshots) < 2 THEN <<>>
  ELSE ReturnsUpTo(snapshots, Len(snapshots))

\* the annualized mean, of no return too
MeanReturn(returns) ==
  RMul(RDiv(Sum(returns, Len(returns)), Num(Len(returns))), Num(252))

calculateExpectedReturn(returns) ==
  IF Len(returns) = 0 THEN Frac(2, 25)
  ELSE RMul(RDiv(Sum(returns, Len(returns)), Num(Len(returns))), Num(252))


DefaultDeviation == Plain(Frac(3, 20))

calculateStandardDeviation(returns) ==
  IF Len(returns) < 2 THEN DefaultDeviation
  ELSE LET mean == RDiv(Sum(returns, Len(returns)), Num(Len(returns)))
           squaredDiffs == [i \in DOMAIN returns |->
                              RMul(RSub(returns[i], mean),
                                   RSub(returns[i], mean))]
           variance == RDiv(Sum(squaredDiffs, Len(returns)),
                            Num(Len(returns) - 1))
       IN  SurdMul(Sqrt(variance), Sqrt(Num(252)))

\* the ratio, whatever the deviation
UnguardedSharpeRatio(returns) ==
  DivBySurd(RSub(calculateExpectedReturn(returns), RISK_FREE_RATE),
            calculateStandardDeviation(returns))

calculateSharpeRatio(returns) ==
  LET expectedReturn == calculateExpectedReturn(returns)
      stdDev == calculateStandardDeviation(returns)
  IN  IF stdDev = Plain(Num(0)) THEN Plain(Num(0))
      ELSE DivBySurd(RSub(expectedReturn, RISK_FREE_RATE), stdDev)

\* returns.map(r => r * 0.9 + (Math.random() * 0.02 - 0.01)), draw i for
\* return i
MarketReturns(returns, rnd) ==
  [i \in DOMAIN returns |->
     RAdd(RMul(returns[i], Frac(9, 10)),
          RSub(RMul(Draw(rnd, i), Frac(1, 50)), Frac(1, 100)))]

calculateBeta(returns, rnd) ==
  IF Len(returns) < 10 THEN Num(1)
  ELSE LET n == Len(returns)
           marketReturns == MarketReturns(returns, rnd)
           portfolioMean == RDiv(Sum(returns, n), Num(n))
           marketMean == RDiv(Sum(marketReturns, n), Num(n))
           covariance ==
             Sum([i \in 1..n |->
                    RMul(RSub(returns[i], portfolioMean),
                         RSub(marketReturns[i], marketMean))], n)
           marketVariance ==
             Sum([i \in 1..n |->
                    RMul(RSub(marketReturns[i], marketMean),
                         RSub(marketReturns[i], marketMean))], n)
       IN  IF marketVariance = Num(0) THEN Num(1)
           ELSE RDiv(covariance, marketVariance)

\* the draws calculateBeta makes
BetaDraws(returns) == IF Len(returns) < 10 THEN 0 ELSE Len(returns)

\* the loop of calculateMaxDrawdown over snapshots 1..n
RECURSIVE DrawdownUpTo(_, _)
DrawdownUpTo(snapshots, n) ==
  IF n = 0 THEN [maxDrawdown |-> Num(0), peak |-> snapshots[1]]
  ELSE LET before == DrawdownUpTo(snapshots, n - 1)
           value == snapshots[n]
           peak == IF value > before.peak THEN value ELSE before.peak
           drawdown == Frac(peak - value, peak)
       IN  [maxDrawdown |-> IF RGt(drawdown, before.maxDrawdown)
                              THEN drawdown ELSE before.maxDrawdown,
            peak |-> peak]

calculateMaxDrawdown(snapshots) ==
  IF Len(snapshots) < 2 THEN Num(0)
  ELSE DrawdownUpTo(snapshots, Len(snapshots)).maxDrawdown

\* ------------------------------------------------------ what-if simulation
\* POST /analysis/simulate.  A position of the portfolio is its ticker,
\* quantity, avgCostBasis, currentPrice (0: no price) and marketValue (0: no
\* value stored); a change is its action, ticker, quantity and price (0: no
\* price given).  The snapshots of the portfolio are kept as the series of
\* their totalValue in chronological order.

\* longest change list of a request
MaxChanges == 2

SimTickers == {"AAA", "BBB"}

\* String.prototype.toUpperCase on the tickers requests carry
ToUpperCase(ticker) ==
  IF ticker = "aaa" THEN "AAA" ELSE IF ticker = "bbb" THEN "BBB" ELSE ticker

BasePosition(ticker, quantity, avgCostBasis, currentPrice, marketValue) ==
  [ticker |-> ticker, quantity |-> quantity,
   avgCostBasis |-> Num(avgCostBasis), currentPrice |-> Num(currentPrice),
   marketValue |-> Num(marketValue)]

\* portfolio.positions: no position, or one of a ticker, or one of each.
\* AAA was never valued; BBB was valued by a broker sync, at its quantity of
\* now or at the quantity 2 it had before a sale
BasePortfolios ==
  LET A == {BasePosition("AAA", q, 1, m, 0) : q \in Qtys, m \in {0, 2}}
      B == {BasePosition("BBB", 1, 3, 2, v) : v \in {2, 4}}
  IN  {<<>>} \cup {<<a>> : a \in A} \cup {<<b>> : b \in B}
      \cup {<<a, b>> : a \in A, b \in B}

\* a request's change; `remove` reads neither quantity nor price, and
\* `adjust` no price
Changes ==
  [action : {"add"}, ticker : {"AAA", "bbb"}, quantity : Qtys,
   price : {0, 3}]
    \cup [action : {"remove"}, ticker : {"AAA", "bbb"}, quantity : {1},
          price : {0}]
    \cup [action : {"adjust"}, ticker : {"AAA", "bbb"}, quantity : Qtys,
          price : {0}]

ChangeLists == UNION {[1..n -> Changes] : n \in 0..MaxChanges}

\* the snapshots of the portfolio: none, one, or a fall and a recovery
SimHistories == {<<>>, <<2>>, <<2, 1, 2>>}

\* findFirst, snapshots: { orderBy: { date: 'desc' }, take: 252 }
FindSnapshots(history) ==
  [i \in 1..Len(history) |-> history[Len(history) + 1 - i]]

\* An object is known by its address.  The n objects of currentPositions
\* have the addresses 1..n; the spread { ...p } of the i-th makes a new
\* object
\* the address of the i-th object itself: no new object
SameAddress(n, i) == i

FreshAddress(n, i) == n + i

\* { ...p, isNew: false, isRemoved: false }, the object at addr
MapEntry(p, addr) ==
  [ticker |-> p.ticker, quantity |-> p.quantity,
   avgCostBasis |-> p.avgCostBasis, currentPrice |-> p.currentPrice,
   isNew |-> FALSE, isRemoved |-> FALSE, addr |-> addr]

\* new Map(currentPositions.map(p => [p.ticker, { ...p, ... }])), in
\* insertion order
PositionMap(currentPositions) ==
  [i \in DOMAIN currentPositions |->
     MapEntry(currentPositions[i],
              FreshAddress(Len(currentPositions), i))]

MapHas(map, ticker) == \E i \in DOMAIN map : map[i].ticker = ticker
MapIndex(map, ticker) == CHOOSE i \in DOMAIN map : map[i].ticker = ticker

\* the address of the object literal a new position is made of
NewAddress(map) ==
  IF map = <<>> THEN 1
  ELSE 1 + (CHOOSE a \in {map[i].addr : i \in DOMAIN map} :
              \A i \in DOMAIN map : map[i].addr <= a)

\* an add that brings a removed position back: isRemoved is reset
AddRevives(existing, change) ==
  LET quantity == existing.quantity + change.quantity
  IN  IF change.price # 0
        THEN LET oldValue == RMul(Num(quantity), existing.avgCostBasis)
                 newValue == Num(change.quantity * change.price)
             IN  [existing EXCEPT
                    !.quantity = quantity,
                    !.isRemoved = FALSE,
                    !.avgCostBasis = RDiv(RAdd(oldValue, newValue),
                                          Num(quantity + change.quantity))]
        ELSE [existing EXCEPT !.quantity = quantity, !.isRemoved = FALSE]

\* case 'add', the ticker is in the map: the quantity is raised first, and
\* the raised quantity is what the average is computed from
AddToSimulated(existing, change) ==
  LET quantity == existing.quantity + change.quantity
  IN  IF change.price # 0
        THEN LET oldValue == RMul(Num(quantity), existing.avgCostBasis)
                 newValue == Num(change.quantity * change.price)
             IN  [existing EXCEPT
                    !.quantity = quantity,
                    !.avgCostBasis = RDiv(RAdd(oldValue, newValue),
                                          Num(quantity + change.quantity))]
        ELSE [existing EXCEPT !.quantity = quantity]

\* case 'add', the ticker is not in the map
NewSimulated(ticker, change, addr) ==
  [ticker |-> ticker, quantity |-> change.quantity,
   avgCostBasis |-> Num(change.price), currentPrice |-> Num(change.price),
   isNew |-> TRUE, isRemoved |-> FALSE, addr |-> addr]

\* one turn of the loop over the changes
ApplyChange(map, change) ==
  LET ticker == ToUpperCase(change.ticker)
  IN  CASE change.action = "add" ->
             IF MapHas(map, ticker)
               THEN [map EXCEPT ![MapIndex(map, ticker)] =
                       AddToSimulated(@, change)]
               ELSE Append(map, NewSimulated(ticker, change,
                                             NewAddress(map)))
        [] change.action = "remove" ->
             IF MapHas(map, ticker)
               THEN [map EXCEPT ![MapIndex(map, ticker)] =
                       [@ EXCEPT !.isRemoved = TRUE, !.quantity = 0]]
               ELSE map
        [] change.action = "adjust" ->
             IF MapHas(map, ticker)
               THEN [map EXCEPT ![MapIndex(map, ticker)].quantity =
                       change.quantity]
               ELSE map

\* the map after changes 1..n, in order
RECURSIVE ApplyChanges(_, _, _)
ApplyChanges(map, changes, n) ==
  IF n = 0 THEN map
  ELSE ApplyChange(ApplyChanges(map, changes, n - 1), changes[n])

\* Number(p.quantity) * Number(p.currentPrice || p.avgCostBasis)
SimulatedValue(p) ==
  RMul(Num(p.quantity),
       IF p.currentPrice # Num(0) THEN p.currentPrice ELSE p.avgCostBasis)

RECURSIVE SimulatedTotal(_, _)
SimulatedTotal(ps, n) ==
  IF n = 0 THEN Num(0)
  ELSE RAdd(SimulatedTotal(ps, n - 1), SimulatedValue(ps[n]))

\* Array.prototype.filter(p => !p.isRemoved)
RECURSIVE NotRemoved(_, _)
NotRemoved(map, n) ==
  IF n = 0 THEN <<>>
  ELSE IF map[n].isRemoved THEN NotRemoved(map, n - 1)
       ELSE Append(NotRemoved(map, n - 1), map[n])

applySimulatedChanges(currentPositions, changes) ==
  LET positionMap == ApplyChanges(PositionMap(currentPositions),
                                  changes, Len(changes))
      kept == NotRemoved(positionMap, Len(positionMap))
      totalValue == SimulatedTotal(kept, Len(kept))
  IN  [i \in DOMAIN kept |->
         [ticker |-> kept[i].ticker, quantity |-> kept[i].quantity,
          avgCostBasis |-> kept[i].avgCostBasis,
          currentPrice |-> kept[i].currentPrice,
          isNew |-> kept[i].isNew, isRemoved |-> kept[i].isRemoved,
          marketValue |-> SimulatedValue(kept[i]),
          weight |-> IF totalValue[1] > 0 /\ IsFinite(totalValue)
                       THEN RMul(RDiv(SimulatedValue(kept[i]), totalValue),
                                 Num(100))
                       ELSE Num(0)]]

\* the objects of currentPositions once applySimulatedChanges has returned:
\* the writes of the loop reach the object whose address the entry holds
WrittenThrough(currentPositions, changes) ==
  LET positionMap == ApplyChanges(PositionMap(currentPositions),
                                  changes, Len(changes))
  IN  [i \in DOMAIN currentPositions |->
         IF \E j \in DOMAIN positionMap : positionMap[j].addr = i
           THEN LET entry == positionMap[CHOOSE j \in DOMAIN positionMap :
                                           positionMap[j].addr = i]
                IN  [currentPositions[i] EXCEPT
                       !.quantity = entry.quantity,
                       !.avgCostBasis = entry.avgCostBasis]
           ELSE currentPositions[i]]

\* Number(p.marketValue) || 0: no fallback for a position never valued
StoredValueOnly(p) == p.marketValue

\* Number(p.marketValue) ||
\*   Number(p.quantity) * Number(p.currentPrice || p.avgCostBasis)
PositionValue(p) ==
  IF p.marketValue # Num(0) THEN p.marketValue ELSE SimulatedValue(p)

RECURSIVE PortfolioTotal(_, _)
PortfolioTotal(ps, n) ==
  IF n = 0 THEN Num(0)
  ELSE RAdd(PortfolioTotal(ps, n - 1), PositionValue(ps[n]))

\* simulatedPositions.reduce((sum, p) => sum + (p.marketValue || 0), 0)
RECURSIVE MarketTotal(_, _)
MarketTotal(ps, n) ==
  IF n = 0 THEN Num(0)
  ELSE RAdd(MarketTotal(ps, n - 1), ps[n].marketValue)

calculatePortfolioMetrics(portfolio, rnd) ==
  LET returns == calculateReturnsFromSnapshots(portfolio.snapshots)
  IN  [totalValue |-> PortfolioTotal(portfolio.positions,
                                     Len(portfolio.positions)),
       expectedReturn |-> calculateExpectedReturn(returns),
       standardDeviation |-> calculateStandardDeviation(returns),
       sharpeRatio |-> calculateSharpeRatio(returns),
       maxDrawdown |-> calculateMaxDrawdown(portfolio.snapshots),
       beta |-> calculateBeta(returns, rnd)]

\* the simulated metrics without the adjustment for new positions
UnadjustedSimulatedMetrics(simulatedPositions, snapshots) ==
  LET returns == calculateReturnsFromSnapshots(snapshots)
      expectedReturn == calculateExpectedReturn(returns)
      stdDev == calculateStandardDeviation(returns)
  IN  [totalValue |-> MarketTotal(simulatedPositions,
                                  Len(simulatedPositions)),
       expectedReturn |-> expectedReturn,
       standardDeviation |-> stdDev,
       sharpeRatio |-> IF RGt(stdDev.c, Num(0))
                         THEN DivBySurd(RSub(expectedReturn, RISK_FREE_RATE),
                                        stdDev)
                         ELSE Plain(Num(0)),
       maxDrawdown |-> RMul(calculateMaxDrawdown(snapshots), Frac(9, 10)),
       beta |-> Frac(11, 10)]

calculateSimulatedMetrics(simulatedPositions, snapshots) ==
  LET returns == calculateReturnsFromSnapshots(snapshots)
      hasNewPositions ==
        \E i \in DOMAIN simulatedPositions : simulatedPositions[i].isNew
      expectedReturn ==
        IF hasNewPositions
          THEN RMul(calculateExpectedReturn(returns), Frac(51, 50))
          ELSE calculateExpectedReturn(returns)
      stdDev ==
        IF hasNewPositions
          THEN Scale(calculateStandardDeviation(returns), Frac(19, 20))
          ELSE calculateStandardDeviation(returns)
  IN  [totalValue |-> MarketTotal(simulatedPositions,
                                  Len(simulatedPositions)),
       expectedReturn |-> expectedReturn,
       standardDeviation |-> stdDev,
       sharpeRatio |-> IF RGt(stdDev.c, Num(0))
                         THEN DivBySurd(RSub(expectedReturn, RISK_FREE_RATE),
                                        stdDev)
                         ELSE Plain(Num(0)),
       maxDrawdown |-> RMul(calculateMaxDrawdown(snapshots), Frac(9, 10)),
       beta |-> Frac(11, 10)]

\* the draws follow the `made` draws the request has made before
calculateEfficientFrontier(ps, rnd, made) ==
  [frontier |->
     [k \in 1..8 |->
        LET risk == 3 + 2 * k
            expectedReturn ==
              RAdd(RAdd(Num(3), RMul(Num(risk), Frac(1, 2))),
                   RSub(RMul(Draw(rnd, made + k), Num(2)), Num(1)))
        IN  [risk |-> Num(risk),
             return |-> IF RGt(expectedReturn, Num(0))
                          THEN expectedReturn ELSE Num(0)]],
   currentPortfolio |->
     [risk |-> RAdd(Num(12), RMul(Draw(rnd, made + 9), Num(3))),
      return |-> RAdd(Num(8), RMul(Draw(rnd, made + 10), Num(2)))]]

\* { current, simulated, change: simulated - current } of a plain number
Delta(current, simulated) ==
  [current |-> current, simulated |-> simulated,
   change |-> RSub(simulated, current)]

\* the same of a number a square root went into
SurdDelta(current, simulated) ==
  [current |-> current, simulated |-> simulated,
   change |-> SurdSub(simulated, current)]

\* the reply of POST /analysis/simulate
SimulateReply(portfolio, simulatedPositions, rnd) ==
  LET currentMetrics == calculatePortfolioMetrics(portfolio, rnd)
      simulatedMetrics == calculateSimulatedMetrics(simulatedPositions,
                                                    portfolio.snapshots)
      returns == calculateReturnsFromSnapshots(portfolio.snapshots)
  IN  [current |-> currentMetrics,
       simulated |-> simulatedMetrics,
       delta |->
         [expectedReturn |-> Delta(currentMetrics.expectedReturn,
                                   simulatedMetrics.expectedReturn),
          risk |-> SurdDelta(currentMetrics.standardDeviation,
                             simulatedMetrics.standardDeviation),
          sharpe |-> SurdDelta(currentMetrics.sharpeRatio,
                               simulatedMetrics.sharpeRatio),
          maxDrawdown |-> Delta(currentMetrics.maxDrawdown,
                                simulatedMetrics.maxDrawdown),
          beta |-> Delta(currentMetrics.beta, simulatedMetrics.beta),
          totalValue |-> Delta(currentMetrics.totalValue,
                               simulatedMetrics.totalValue)],
       efficientFrontier |->
         calculateEfficientFrontier(simulatedPositions, rnd,
                                    BetaDraws(returns)),
       simulatedPositions |->
         [i \in DOMAIN simulatedPositions |->
            [ticker |-> simulatedPositions[i].ticker,
             quantity |-> simulatedPositions[i].quantity,
             weight |-> simulatedPositions[i].weight,
             isNew |-> simulatedPositions[i].isNew,
             isRemoved |-> simulatedPositions[i].isRemoved]]]

\* what findFirst returns of the portfolio the request names
Portfolio(base, history) ==
  [positions |-> base, snapshots |-> FindSnapshots(history)]

\* a request: the portfolio as stored, one lot a position, and a change list
InitSim ==
  /\ \E base \in BasePortfolios, history \in SimHistories,
        changes \in ChangeLists :
       /\ sim = [base |-> base, history |-> history, changes |-> changes,
                 result |-> <<>>, after |-> <<>>, reply |-> <<>>,
                 done |-> FALSE]
       /\ positions = {PositionRow(i, base[i].ticker, base[i].quantity,
                                   base[i].avgCostBasis) :
                         i \in DOMAIN base}
       /\ lots = {TaxLotRow(i, i, base[i].quantity, base[i].avgCostBasis, 1) :
                    i \in DOMAIN base}
       /\ nextPosId = Len(base) + 1
       /\ nextLotId = Len(base) + 1
  /\ IdleHandlers
  /\ start = [positions |-> positions, lots |-> lots]
  /\ analysis = NoAnalysis

\* POST /analysis/simulate: the reply; result is what applySimulatedChanges
\* returned, after the objects it was handed once it has returned
Simulate ==
  /\ ~sim.done
  /\ UNCHANGED <<tables, handlers, analysis>>
  /\ LET simulatedPositions == applySimulatedChanges(sim.base, sim.changes)
         after == WrittenThrough(sim.base, sim.changes)
     IN  \E rnd \in RandomStreams :
           sim' = [sim EXCEPT
                     !.result = simulatedPositions,
                     !.after = after,
                     !.reply = SimulateReply(Portfolio(sim.base, sim.history),
                                             simulatedPositions, rnd),
                     !.done = TRUE]

SpecSim == InitSim /\ [][Simulate]_vars

\* ---------------------------------------------- risk and tax-lot analysis
\* GET /analysis/risk and GET /positions/:id/tax-lots: pure functions of
\* what findFirst returns.

\* longest snapshot series drawn from SnapshotValues
MaxSnapshots == 4

SnapshotValues == 0..3

\* a rise, a fall and a partial recovery; and a series long enough for
\* calculateBeta to compute
DipHistory == <<100, 120, 80, 110>>
LongHistory == <<1, 2, 1, 2, 1, 2, 1, 2, 1, 2, 1>>

\* PortfolioSnapshot.totalValue in chronological order
Histories ==
  UNION {[1..n -> SnapshotValues] : n \in 0..MaxSnapshots}
    \cup {DipHistory, LongHistory}

\* returns.filter(r => r < 0)
Downside(returns) == SelectSeq(returns, LAMBDA r : r[1] < 0)

\* sortinoRatio of performRiskAnalysis
SortinoRatio(returns) ==
  LET downsideStdDev == calculateStandardDeviation(Downside(returns))
  IN  IF RGt(downsideStdDev.c, Num(0))
        THEN DivBySurd(RSub(calculateExpectedReturn(returns),
                            RISK_FREE_RATE), downsideStdDev)
        ELSE Plain(Num(0))

\* a TaxLot row as the analysis reads it: holdingDays is the age of the lot
\* in days when the request is served
AnalysedLot(quantity, soldQuantity, costBasis, holdingDays) ==
  [quantity |-> quantity, soldQuantity |-> soldQuantity,
   costBasis |-> costBasis, holdingDays |-> holdingDays]

AnalysedLots ==
  LET One == UNION {{AnalysedLot(q, sd, c, h) :
                       sd \in 0..q, c \in {0} \cup Prices, h \in {365, 366}} :
                    q \in Qtys}
  IN  UNION {[1..n -> One] : n \in 0..MaxLots}

\* every lot, the consumed ones included
AllLots(ls) == ls

\* lots.filter(lot => Number(lot.quantity) > Number(lot.soldQuantity))
OpenLots(ls) == SelectSeq(ls, LAMBDA lot : lot.quantity > lot.soldQuantity)

\* one element of lotsAnalysis; currentPrice 0 is no price
LotAnalysis(lot, currentPrice) ==
  LET remainingQty == lot.quantity - lot.soldQuantity
      costBasis == lot.costBasis
  IN  [quantity |-> remainingQty,
       costBasis |-> costBasis,
       totalCost |-> costBasis * remainingQty,
       holdingDays |-> lot.holdingDays,
       isLongTerm |-> lot.holdingDays > 365,
       unrealizedGain |-> IF currentPrice # 0
                            THEN (currentPrice - costBasis) * remainingQty
                            ELSE 0,
       unrealizedGainPercent |->
         IF currentPrice # 0
           THEN RMul(RDiv(Num(currentPrice - costBasis), Num(costBasis)),
                     Num(100))
           ELSE Num(0)]

RECURSIVE SumOver(_, _, _, _)
SumOver(ls, n, longTerm, field) ==
  IF n = 0 THEN 0
  ELSE SumOver(ls, n - 1, longTerm, field)
       + (IF ls[n].isLongTerm = longTerm THEN ls[n][field] ELSE 0)

calculateFIFOTaxLots(ls, currentPrice) ==
  LET open == OpenLots(ls)
      lotsAnalysis == [i \in DOMAIN open |-> LotAnalysis(open[i], currentPrice)]
      n == Len(lotsAnalysis)
  IN  [lots |-> lotsAnalysis,
       summary |->
         [shortTermQuantity |-> SumOver(lotsAnalysis, n, FALSE, "quantity"),
          longTermQuantity |-> SumOver(lotsAnalysis, n, TRUE, "quantity"),
          shortTermGain |-> SumOver(lotsAnalysis, n, FALSE, "unrealizedGain"),
          longTermGain |-> SumOver(lotsAnalysis, n, TRUE, "unrealizedGain"),
          totalUnrealizedGain |->
            SumOver(lotsAnalysis, n, FALSE, "unrealizedGain")
            + SumOver(lotsAnalysis, n, TRUE, "unrealizedGain")]]

\* ------------------------------------------------ allocations and holdings
\* portfolio.positions as the dashboard, breakdown and risk routes read it.

\* the tickers a portfolio may hold, in the order the rows were created
HeldTickers == <<"AAA", "BBB", "CCC", "DDD">>

\* Position.sector (optional: "" is none) and Position.assetType of a ticker
Listing(ticker) ==
  CASE ticker = "AAA" -> [sector |-> "Technology", assetType |-> "STOCK"]
    [] ticker = "BBB" -> [sector |-> "Energy", assetType |-> "ETF"]
    [] ticker = "CCC" -> [sector |-> "", assetType |-> "CASH"]
    [] OTHER -> [sector |-> "Technology", assetType |-> "ETF"]

\* quantity, avgCostBasis, currentPrice and marketValue of a stored row: one
\* created with quantity 0 and one with cost 0 (POST /positions validates
\* neither), one never priced, one priced but not valued, and one valued by
\* a broker sync
Valuations ==
  {<<0, 1, 0, 0>>, <<1, 0, 0, 0>>, <<1, 1, 0, 0>>, <<1, 1, 2, 0>>,
   <<3, 1, 1, 3>>}

HeldPosition(ticker, v) ==
  [ticker |-> ticker, sector |-> Listing(ticker).sector,
   assetType |-> Listing(ticker).assetType, quantity |-> v[1],
   avgCostBasis |-> Num(v[2]), currentPrice |-> Num(v[3]),
   marketValue |-> Num(v[4])]

\* the portfolios over the first n tickers
RECURSIVE Holdings(_)
Holdings(n) ==
  IF n = 0 THEN {<<>>}
  ELSE Holdings(n - 1)
       \cup {Append(h, HeldPosition(HeldTickers[n], v)) :
               h \in Holdings(n - 1), v \in Valuations}

\* p.sector || 'Other'
SectorOf(p) == IF p.sector = "" THEN "Other" ELSE p.sector

\* p.assetType || 'OTHER'
AssetTypeOf(p) == IF p.assetType = "" THEN "OTHER" ELSE p.assetType

formatAssetType(assetType) ==
  CASE assetType = "STOCK" -> "Stocks"
    [] assetType = "ETF" -> "ETFs"
    [] assetType = "CASH" -> "Cash"
    [] assetType = "OTHER" -> "Other"
    [] OTHER -> assetType

\* the Map after positions.forEach over entries 1..n of keyed, in insertion
\* order: map.set(name, (map.get(name) || 0) + value)
RECURSIVE MapEntries(_, _)
MapEntries(keyed, n) ==
  IF n = 0 THEN <<>>
  ELSE LET map == MapEntries(keyed, n - 1)
           e == keyed[n]
       IN  IF \E i \in DOMAIN map : map[i].name = e.name
             THEN [map EXCEPT
                     ![CHOOSE i \in DOMAIN map : map[i].name = e.name].value =
                       RAdd(@, e.value)]
             ELSE Append(map, [name |-> e.name,
                               value |-> RAdd(Num(0), e.value)])

\* the share as a fraction of 1: value / totalValue, not multiplied by 100
ShareOfTotal(value, totalValue) ==
  IF RGt(totalValue, Num(0)) THEN RDiv(value, totalValue) ELSE Num(0)

\* weight: totalValue > 0 ? (value / totalValue) * 100 : 0
GroupWeight(value, totalValue) ==
  IF RGt(totalValue, Num(0)) THEN RMul(RDiv(value, totalValue), Num(100))
  ELSE Num(0)

\* Array.prototype.sort((a, b) => b.weight - a.weight): stable, descending;
\* g goes behind every group of its weight or more
InsertByWeight(sorted, g) ==
  LET before == SelectSeq(sorted, LAMBDA s : ~RGt(g.weight, s.weight))
      behind == SelectSeq(sorted, LAMBDA s : RGt(g.weight, s.weight))
  IN  before \o <<g>> \o behind

RECURSIVE SortByWeight(_, _)
SortByWeight(groups, n) ==
  IF n = 0 THEN <<>>
  ELSE InsertByWeight(SortByWeight(groups, n - 1), groups[n])

calculateAllocations(ps) ==
  LET totalValue == PortfolioTotal(ps, Len(ps))
      sectorMap ==
        MapEntries([i \in DOMAIN ps |->
                      [name |-> SectorOf(ps[i]),
                       value |-> PositionValue(ps[i])]], Len(ps))
      assetMap ==
        MapEntries([i \in DOMAIN ps |->
                      [name |-> AssetTypeOf(ps[i]),
                       value |-> PositionValue(ps[i])]], Len(ps))
      bySector ==
        [i \in DOMAIN sectorMap |->
           [name |-> sectorMap[i].name, value |-> sectorMap[i].value,
            weight |-> GroupWeight(sectorMap[i].value, totalValue)]]
      byAssetType ==
        [i \in DOMAIN assetMap |->
           [name |-> formatAssetType(assetMap[i].name),
            value |-> assetMap[i].value,
            weight |-> GroupWeight(assetMap[i].value, totalValue)]]
  IN  [bySector |-> SortByWeight(bySector, Len(bySector)),
       byAssetType |-> SortByWeight(byAssetType, Len(byAssetType))]

\* Math.abs of a fraction
RAbs(x) == <<Abs(x[1]), x[2]>>

\* calculateKPIs: the values of the reply (the formatted strings left out)
calculateKPIs(portfolio, rnd) ==
  LET ps == portfolio.positions
      returns == calculateReturnsFromSnapshots(portfolio.snapshots)
      totalValue == PortfolioTotal(ps, Len(ps))
      totalCost == Sum([i \in DOMAIN ps |->
                          RMul(Num(ps[i].quantity), ps[i].avgCostBasis)],
                       Len(ps))
      unrealizedPL == RSub(totalValue, totalCost)
      cash == SelectSeq(ps, LAMBDA p : p.assetType = "CASH")
  IN  [totalValue |-> totalValue,
       unrealizedPL |-> unrealizedPL,
       unrealizedPLPercent |->
         IF RGt(totalCost, Num(0))
           THEN RMul(RDiv(unrealizedPL, totalCost), Num(100))
           ELSE Num(0),
       sharpeRatio |-> calculateSharpeRatio(returns),
       beta |-> calculateBeta(returns, rnd),
       maxDrawdown |-> calculateMaxDrawdown(portfolio.snapshots),
       cashAvailable |-> IF cash = <<>> THEN Num(0) ELSE cash[1].marketValue]

\* Math.max() of no argument
NegInfinity == <<-1, 0>>

\* Math.max(...breakdown.bySector.map(s => s.weight))
MaxSectorWeight(bySector) ==
  IF bySector = <<>> THEN NegInfinity
  ELSE LET weights == {bySector[i].weight : i \in DOMAIN bySector}
       IN  CHOOSE w \in weights : \A v \in weights : ~RGt(v, w)

\* high from a weight of 50 on, not above 50 only
SeverityFromFifty(maxSectorWeight) ==
  IF ~RGt(Num(50), maxSectorWeight) THEN "high" ELSE "medium"

\* severity: maxSectorWeight > 50 ? 'high' : 'medium'
AlertSeverity(maxSectorWeight) ==
  IF RGt(maxSectorWeight, Num(50)) THEN "high" ELSE "medium"

\* the reply of GET /analysis/breakdown; an alert carries the sector its
\* message names and the reduction its suggestion names
Breakdown(ps) ==
  LET breakdown == calculateAllocations(ps)
      maxSectorWeight == MaxSectorWeight(breakdown.bySector)
      topSector ==
        breakdown.bySector[CHOOSE i \in DOMAIN breakdown.bySector :
                             /\ breakdown.bySector[i].weight = maxSectorWeight
                             /\ \A j \in 1..(i - 1) :
                                  breakdown.bySector[j].weight
                                    # maxSectorWeight]
  IN  [bySector |-> breakdown.bySector,
       byAssetType |-> breakdown.byAssetType,
       alerts |->
         IF maxSectorWeight # NegInfinity /\ RGt(maxSectorWeight, Num(40))
           THEN <<[type |-> "concentration",
                   severity |-> AlertSeverity(maxSectorWeight),
                   sector |-> topSector.name,
                   weight |-> maxSectorWeight,
                   reduction |-> RSub(maxSectorWeight, Num(30))]>>
           ELSE <<>>]

\* ----------------------------------------------------- correlation matrix
\* longest ticker list of a request
MaxTickers == 3

CorrTickers == {"AAA", "ABB", "BBB"}

\* tickers[i][0]
FirstChar(ticker) == IF ticker = "BBB" THEN "B" ELSE "A"

\* Math.max(-1, Math.min(1, x))
Clamp(x) ==
  IF RGt(x, Num(1)) THEN Num(1)
  ELSE IF RGt(Num(-1), x) THEN Num(-1) ELSE x

\* baseCorr + (Math.random() * 0.4 - 0.2), clamped, with the draw made
PairCorrelation(tickers, i, j, draw) ==
  LET samePrefix == FirstChar(tickers[i]) = FirstChar(tickers[j])
      baseCorr == IF samePrefix THEN Frac(1, 2) ELSE Frac(1, 5)
  IN  Clamp(RAdd(baseCorr, RSub(RMul(draw, Frac(2, 5)), Frac(1, 5))))

\* the draws made before the entry (i, j), i < j, is reached: the loops
\* draw once an entry above the diagonal, row by row
DrawsBefore(n, i, j) == (i - 1) * n - ((i * (i - 1)) \div 2) + (j - i - 1)

\* matrix[i][j] for i < j
UpperEntry(tickers, rnd, i, j) ==
  PairCorrelation(tickers, i, j,
                  Draw(rnd, DrawsBefore(Len(tickers), i, j) + 1))

\* an entry below the diagonal drawn anew
RedrawnEntry(tickers, rnd, i, j) ==
  PairCorrelation(tickers, j, i,
                  Draw(rnd, DrawsBefore(Len(tickers), j, i) + 2))

\* matrix[i][j] = matrix[j][i] for i > j
LowerEntry(tickers, rnd, i, j) == UpperEntry(tickers, rnd, j, i)

calculateCorrelationMatrix(tickers, rnd) ==
  [i \in DOMAIN tickers |->
     [j \in DOMAIN tickers |->
        IF i = j THEN Num(1)
        ELSE IF i < j THEN UpperEntry(tickers, rnd, i, j)
             ELSE LowerEntry(tickers, rnd, i, j)]]

\* [...returns].sort((a, b) => a - b): x goes behind every return of its
\* value or less
InsertAscending(sorted, x) ==
  LET before == SelectSeq(sorted, LAMBDA s : ~RGt(s, x))
      behind == SelectSeq(sorted, LAMBDA s : RGt(s, x))
  IN  before \o <<x>> \o behind

RECURSIVE SortAscending(_, _)
SortAscending(returns, n) ==
  IF n = 0 THEN <<>>
  ELSE InsertAscending(SortAscending(returns, n - 1), returns[n])

\* sortedReturns[Math.floor(returns.length * 0.05)] || 0
ValueAtRisk(returns) ==
  LET sortedReturns == SortAscending(returns, Len(returns))
      varIndex == (Len(returns) * 5) \div 100
  IN  IF varIndex + 1 \in DOMAIN sortedReturns
        THEN sortedReturns[varIndex + 1] ELSE Num(0)

\* a < 1 for a number kept as c * sqrt(r)
LessThanOne(a) ==
  \/ ~RGt(a.c, Num(0)) /\ a.c # NaN
  \/ RGt(Num(1), RMul(RMul(a.c, a.c), a.r))

\* performRiskAnalysis; a recommendation is known by its type
performRiskAnalysis(portfolio, rnd) ==
  LET ps == portfolio.positions
      returns == calculateReturnsFromSnapshots(portfolio.snapshots)
      beta == calculateBeta(returns, rnd)
      sharpeRatio == calculateSharpeRatio(returns)
      valueAtRisk == ValueAtRisk(returns)
      allocations == calculateAllocations(ps)
      bySector == allocations.bySector
  IN  [volatility |-> SurdMul(calculateStandardDeviation(returns),
                              Sqrt(Num(252))),
       beta |-> beta,
       alpha |-> RSub(RMul(calculateExpectedReturn(returns), Num(100)),
                      RMul(beta, Num(10))),
       sharpeRatio |-> sharpeRatio,
       sortinoRatio |-> SortinoRatio(returns),
       maxDrawdown |-> calculateMaxDrawdown(portfolio.snapshots),
       valueAtRisk |->
         [percent |-> RMul(valueAtRisk, Num(100)),
          amount |-> RMul(MarketTotal(ps, Len(ps)), RAbs(valueAtRisk))],
       sectorConcentration |-> SubSeq(bySector, 1, Min(5, Len(bySector))),
       recommendations |->
         (IF RGt(beta, Frac(13, 10)) THEN <<"risk">> ELSE <<>>)
         \o (IF bySector # <<>> /\ RGt(bySector[1].weight, Num(40))
               THEN <<"concentration">> ELSE <<>>)
         \o (IF LessThanOne(sharpeRatio) THEN <<"efficiency">> ELSE <<>>)]

\* one request of the analysis routes: what findFirst returns to it, and
\* the change list or the ticker list the request carries
AnalysisRequest(route, holdings, history, changes, ls, currentPrice, tickers) ==
  [route |-> route, holdings |-> holdings, history |-> history,
   changes |-> changes, lots |-> ls, currentPrice |-> currentPrice,
   tickers |-> tickers, result |-> <<>>, reply |-> <<>>, done |-> FALSE]

InitAnalysis ==
  /\ positions = {}
  /\ lots = {}
  /\ nextPosId = 1
  /\ nextLotId = 1
  /\ IdleHandlers
  /\ start = [positions |-> {}, lots |-> {}]
  /\ sim = NoSim
  /\ \/ \E history \in Histories, holdings \in Holdings(1) :
          analysis = AnalysisRequest("risk", holdings, history, <<>>, <<>>,
                                     0, <<>>)
     \/ \E ls \in AnalysedLots, currentPrice \in {0, 2} :
          analysis = AnalysisRequest("tax-lots", <<>>, <<>>, <<>>, ls,
                                     currentPrice, <<>>)
     \/ \E holdings \in Holdings(Len(HeldTickers)) :
          analysis = AnalysisRequest("breakdown", holdings, <<>>, <<>>, <<>>,
                                     0, <<>>)
     \/ \E holdings \in Holdings(Len(HeldTickers)), history \in SimHistories :
          analysis = AnalysisRequest("dashboard", holdings, history, <<>>,
                                     <<>>, 0, <<>>)
     \/ \E holdings \in Holdings(2), history \in SimHistories,
           changes \in {c \in ChangeLists : Len(c) <= 1} :
          analysis = AnalysisRequest("simulate", holdings, history, changes,
                                     <<>>, 0, <<>>)
     \/ \E tickers \in UNION {[1..n -> CorrTickers] : n \in 0..MaxTickers} :
          analysis = AnalysisRequest("correlation", <<>>, <<>>, <<>>, <<>>, 0,
                                     tickers)

\* GET /analysis/risk
RiskAnalysis ==
  /\ analysis.route = "risk"
  /\ ~analysis.done
  /\ UNCHANGED <<tables, handlers, sim>>
  /\ \E rnd \in RandomStreams :
       analysis' = [analysis EXCEPT
                      !.reply = performRiskAnalysis(
                                  Portfolio(analysis.holdings,
                                            analysis.history), rnd),
                      !.done = TRUE]

\* GET /positions/:id/tax-lots
TaxLotAnalysis ==
  /\ analysis.route = "tax-lots"
  /\ ~analysis.done
  /\ UNCHANGED <<tables, handlers, sim>>
  /\ analysis' = [analysis EXCEPT
                    !.reply = calculateFIFOTaxLots(analysis.lots,
                                                   analysis.currentPrice),
                    !.done = TRUE]

\* GET /analysis/breakdown
BreakdownAnalysis ==
  /\ analysis.route = "breakdown"
  /\ ~analysis.done
  /\ UNCHANGED <<tables, handlers, sim>>
  /\ analysis' = [analysis EXCEPT !.reply = Breakdown(analysis.holdings),
                                  !.done = TRUE]

\* GET /portfolio/:id/dashboard: the KPIs and the allocation charts
Dashboard ==
  /\ analysis.route = "dashboard"
  /\ ~analysis.done
  /\ UNCHANGED <<tables, handlers, sim>>
  /\ LET allocations == calculateAllocations(analysis.holdings)
     IN  \E rnd \in RandomStreams :
           analysis' =
             [analysis EXCEPT
                !.reply =
                  [kpis |-> calculateKPIs(Portfolio(analysis.holdings,
                                                    analysis.history), rnd),
                   sectorAllocation |-> allocations.bySector,
                   assetAllocation |-> allocations.byAssetType],
                !.done = TRUE]

\* POST /analysis/simulate on the holdings; result is what
\* applySimulatedChanges returned
SimulateHoldings ==
  /\ analysis.route = "simulate"
  /\ ~analysis.done
  /\ UNCHANGED <<tables, handlers, sim>>
  /\ LET simulatedPositions == applySimulatedChanges(analysis.holdings,
                                                     analysis.changes)
     IN  \E rnd \in RandomStreams :
           analysis' =
             [analysis EXCEPT
                !.result = simulatedPositions,
                !.reply = SimulateReply(Portfolio(analysis.holdings,
                                                  analysis.history),
                                        simulatedPositions, rnd),
                !.done = TRUE]

\* GET /analysis/correlation: the matrix of the ticker list
Correlation ==
  /\ analysis.route = "correlation"
  /\ ~analysis.done
  /\ UNCHANGED <<tables, handlers, sim>>
  /\ \E rnd \in RandomStreams :
       analysis' = [analysis EXCEPT
                      !.reply = [tickers |-> analysis.tickers,
                                 matrix |-> calculateCorrelationMatrix(
                                              analysis.tickers, rnd)],
                      !.done = TRUE]

AnalysisNext ==
  \/ RiskAnalysis
  \/ TaxLotAnalysis
  \/ BreakdownAnalysis
  \/ Dashboard
  \/ SimulateHoldings
  \/ Correlation

SpecAnalysis == InitAnalysis /\ [][AnalysisNext]_vars

\* ------------------------------------------------------- ledger properties
LotById(ls, id) == CHOOSE l \in ls : l.id = id

\* C1: after every completed operation, for every position the sum over its
\* tax lots of (quantity - soldQuantity) equals the position's quantity.
C1_LotsReconcile ==
  \A p \in positions : SumRemaining(LotsOf(lots, p.id)) = p.quantity

\* C2: a SELL whose quantity exceeds the sum of the remaining quantities of
\* the position's lots is refused: no soldQuantity and no position quantity
\* changes.
C2_OversellRejected ==
  [][\A id \in PosIds, q \in Qtys :
       (/\ HasPosition(positions, id)
        /\ q > SumRemaining(LotsOf(lots, id))
        /\ Sell(id, q))
       => UNCHANGED <<positions, lots>>]_vars

\* C3: an accepted sale of q consumes the position's lots oldest first: a
\* lot's soldQuantity grows only if every older lot is left with nothing, at
\* most one lot that gave is left with a remainder, and the increases sum
\* to q.
C3_FIFOOrder ==
  [][\A id \in PosIds, q \in Qtys :
       (/\ HasPosition(positions, id)
        /\ q <= PositionById(positions, id).quantity
        /\ Sell(id, q))
       => LET before == LotsOf(lots, id)
              after == LotsOf(lots', id)
              gave == {l \in before :
                         LotById(after, l.id).soldQuantity > l.soldQuantity}
          IN  /\ \A l \in gave : \A o \in before :
                    o.purchaseDate < l.purchaseDate
                    => LotById(after, o.id).soldQuantity = o.quantity
              /\ Cardinality({l \in gave :
                    LotById(after, l.id).soldQuantity < l.quantity}) <= 1
              /\ SumSold(after) - SumSold(before) = q]_vars

\* C4: in every reachable state every tax lot has soldQuantity <= quantity.
C4_SoldWithinQuantity ==
  \A l \in lots : l.soldQuantity <= l.quantity

\* a sale has consumed a lot of two shares to the end
C4_Witness ==
  \E l \in lots : l.quantity = 2 /\ l.soldQuantity = 2

\* C6: every tax lot ever created is still in the table: none is deleted when
\* it is fully consumed, nor when the sale takes the position to 0.
C6_LotsNeverDeleted ==
  \A i \in 1..(nextLotId - 1) : \E l \in lots : l.id = i

\* a fully consumed lot whose position is gone
C6_Witness ==
  \E l \in lots :
    l.soldQuantity = l.quantity /\ ~HasPosition(positions, l.positionId)

\* C7: a BUY or a SELL on a position of positive quantity leaves it with a
\* positive quantity or deletes it: a SELL of more than the quantity changes
\* nothing, a SELL of exactly the quantity deletes the position.
C7_QuantityStaysPositive ==
  [][\A id \in PosIds, q \in Qtys :
       (/\ HasPosition(positions, id)
        /\ PositionById(positions, id).quantity > 0
        /\ \/ Sell(id, q)
           \/ \E c \in Prices, d \in Dates : Buy(id, q, c, d))
       => /\ HasPosition(positions', id)
               => PositionById(positions', id).quantity > 0
          /\ (Sell(id, q) /\ q > PositionById(positions, id).quantity)
               => UNCHANGED <<positions, lots>>
          /\ (Sell(id, q) /\ q = PositionById(positions, id).quantity)
               => ~HasPosition(positions', id)]_vars

\* a position bought into and sold from, still open
C7_Witness ==
  \E p \in positions :
    /\ p.quantity > 0
    /\ Cardinality(LotsOf(lots, p.id)) = 2
    /\ SumSold(LotsOf(lots, p.id)) > 0

\* what a list of accepted rows adds: shares, and shares times cost
RECURSIVE AddedQuantity(_, _)
AddedQuantity(rows, n) ==
  IF n = 0 THEN 0 ELSE AddedQuantity(rows, n - 1) + rows[n].quantity

RECURSIVE AddedCost(_, _)
AddedCost(rows, n) ==
  IF n = 0 THEN 0
  ELSE AddedCost(rows, n - 1) + rows[n].quantity * rows[n].costBasis

\* newAvg * (oldQty + addedQty) = oldQty * oldAvg + addedQty * addedCost,
\* and newQty = oldQty + addedQty
WeightedAverage(old, new, addedQty, addedTotal) ==
  /\ new.quantity = old.quantity + addedQty
  /\ IsFinite(new.avgCostBasis)
  /\ RMul(new.avgCostBasis, Num(old.quantity + addedQty))
       = RAdd(RMul(Num(old.quantity), old.avgCostBasis), Num(addedTotal))

\* C8: when a BUY, a lot addition, a CSV import or a manual import adds
\* quantity to an existing position, newAvg * (oldQty + addedQty) equals
\* oldQty * oldAvg + addedQty * addedCost and the new quantity is
\* oldQty + addedQty (for several rows: the sums over the rows).  The rows
\* of the request are read off the lots the step has written (a lot keeps
\* its row's quantity and date), with every cost a row can carry.
C8_WeightedAverageCost ==
  [][\A old \in positions :
       LET k == nextLotId' - nextLotId
       IN  k > 0 =>
           \A costs \in [1..k -> Prices] :
             LET rows == [i \in 1..k |->
                            LET lot == LotById(lots', nextLotId + i - 1)
                            IN  ImportRow(old.ticker, lot.quantity, costs[i],
                                          lot.purchaseDate)]
             IN  (\/ ImportCSV(rows)
                  \/ ImportManual(rows)
                  \/ /\ k = 1
                     /\ \/ Buy(old.id, rows[1].quantity, rows[1].costBasis,
                               rows[1].purchaseDate)
                        \/ AddLot(old.id, rows[1].quantity, rows[1].costBasis,
                                  rows[1].purchaseDate))
                 => WeightedAverage(old, PositionById(positions', old.id),
                                    AddedQuantity(rows, k),
                                    AddedCost(rows, k))]_vars

\* 2 shares at 1 and 1 share at 3: 3 shares at 5/3
C8_Witness ==
  \E p \in positions :
    /\ p.quantity = 3
    /\ p.avgCostBasis = <<5, 3>>
    /\ Cardinality(LotsOf(lots, p.id)) = 2

ReadAtStart(p) ==
  /\ snap[p].position \in start.positions
  /\ Range(snap[p].lots) = LotsOf(start.lots, snap[p].position.id)

\* C5: two SELLs of one position whose handlers both read before either
\* writes, both answered 201: the tables are in a state that neither serial
\* order of the two sales produces, and the position's quantity, if the row
\* is still there, is the quantity read less one of the two sales only.
C5_ConcurrentSellsLoseUpdate ==
  (/\ pc[1] = "done" /\ pc[2] = "done"
   /\ ReadAtStart(1) /\ ReadAtStart(2)
   /\ req[1].positionId = req[2].positionId)
  => LET id == req[1].positionId
         read == snap[1].position.quantity
     IN  /\ [positions |-> positions, lots |-> lots]
              \notin (SerialOutcomes(start, id, req[1].quantity,
                                     req[2].quantity)
                      \cup SerialOutcomes(start, id, req[2].quantity,
                                          req[1].quantity))
         /\ \A p \in positions :
              p.id = id => p.quantity \in {read - req[1].quantity,
                                           read - req[2].quantity}

\* both sales of one share are answered 201; the position and its lots
\* show one share sold
C5_Witness ==
  /\ pc[1] = "done" /\ pc[2] = "done"
  /\ ReadAtStart(1) /\ ReadAtStart(2)
  /\ req[1].quantity = 1 /\ req[2].quantity = 1
  /\ \E p \in positions :
       /\ p.id = req[1].positionId
       /\ p.quantity = snap[1].position.quantity - 1
  /\ SumSold(lots) = SumSold(start.lots) + 1

\* C10: a simulation whose one change is an `add` with a price on a ticker
\* of the base portfolio returns that ticker with quantity oldQty + changeQty
\* and an average cost basis avg with avg * (oldQty + changeQty) =
\* oldQty * oldAvg + changeQty * changePrice.
C10_SimulatedAddWeightedAverage ==
  (/\ sim.done
   /\ Len(sim.changes) = 1
   /\ sim.changes[1].action = "add"
   /\ sim.changes[1].price # 0
   /\ MapHas(sim.base, ToUpperCase(sim.changes[1].ticker)))
  => LET change == sim.changes[1]
         ticker == ToUpperCase(change.ticker)
         old == sim.base[MapIndex(sim.base, ticker)]
         new == sim.result[MapIndex(sim.result, ticker)]
     IN  WeightedAverage(old, new, change.quantity,
                         change.quantity * change.price)

\* --------------------------------------------------- simulation properties
\* change i is a `remove` of a ticker the map holds when it is applied, and
\* no later change names the ticker
RemovesLast(base, changes, i) ==
  LET ticker == ToUpperCase(changes[i].ticker)
  IN  /\ changes[i].action = "remove"
      /\ MapHas(ApplyChanges(PositionMap(base), changes, i - 1), ticker)
      /\ \A j \in DOMAIN changes :
           j > i => ToUpperCase(changes[j].ticker) # ticker

\* C11: a ticker a `remove` change targets is not dropped from the result of
\* the simulation: simulatedPositions holds it with isRemoved = true,
\* quantity 0 and weight 0.
C11_RemovedStaysInResult ==
  sim.done =>
    \A i \in DOMAIN sim.changes :
      RemovesLast(sim.base, sim.changes, i) =>
        LET ticker == ToUpperCase(sim.changes[i].ticker)
        IN  /\ MapHas(sim.result, ticker)
            /\ LET p == sim.result[MapIndex(sim.result, ticker)]
               IN  p.isRemoved /\ p.quantity = 0 /\ p.weight = Num(0)

\* C12: a simulation with an empty change list returns simulatedPositions
\* with the tickers and quantities of the base positions, and a delta whose
\* change is 0 for expectedReturn, risk, sharpe, maxDrawdown, beta and
\* totalValue.
C12_EmptyChangesNoDelta ==
  (sim.done /\ sim.changes = <<>>) =>
    /\ Len(sim.reply.simulatedPositions) = Len(sim.base)
    /\ \A i \in DOMAIN sim.base :
         /\ sim.reply.simulatedPositions[i].ticker = sim.base[i].ticker
         /\ sim.reply.simulatedPositions[i].quantity = sim.base[i].quantity
    /\ sim.reply.delta.expectedReturn.change = Num(0)
    /\ sim.reply.delta.risk.change = Plain(Num(0))
    /\ sim.reply.delta.sharpe.change = Plain(Num(0))
    /\ sim.reply.delta.maxDrawdown.change = Num(0)
    /\ sim.reply.delta.beta.change = Num(0)
    /\ sim.reply.delta.totalValue.change = Num(0)

\* C13: the simulation is deterministic: the reply made (current and
\* simulated metrics, delta, efficient frontier, simulated positions) is the
\* reply of every invocation with the same base positions, snapshots and
\* change list, whatever Math.random draws.
C13_SimulationDeterministic ==
  sim.done =>
    \A rnd \in RandomStreams :
      SimulateReply(Portfolio(sim.base, sim.history),
                    applySimulatedChanges(sim.base, sim.changes), rnd)
        = sim.reply

\* C14: a simulation changes no real holding: once the request is served the
\* stored positions and tax lots are what they were before it, and every
\* position record handed to applySimulatedChanges has the quantity and the
\* average cost basis it was handed with.
C14_SimulationLeavesHoldings ==
  sim.done =>
    /\ positions = start.positions
    /\ lots = start.lots
    /\ Len(sim.after) = Len(sim.base)
    /\ \A i \in DOMAIN sim.base :
         /\ sim.after[i].quantity = sim.base[i].quantity
         /\ sim.after[i].avgCostBasis = sim.base[i].avgCostBasis

\* a served simulation of a stored portfolio that changed both the quantity
\* and the average cost basis of a ticker the portfolio holds
C14_Witness ==
  /\ sim.done
  /\ positions # {}
  /\ lots # {}
  /\ \E i \in DOMAIN sim.base, j \in DOMAIN sim.result :
       /\ sim.result[j].ticker = sim.base[i].ticker
       /\ sim.result[j].quantity # sim.base[i].quantity
       /\ sim.result[j].avgCostBasis # sim.base[i].avgCostBasis

\* ----------------------------------------------------- analysis properties
\* C15: max drawdown is 0 for every snapshot series whose values never fall
\* from one snapshot to the next in chronological order, the series being
\* supplied to the engine most recent snapshot first, as the routes do.
C15_NoDrawdownWhenNonDecreasing ==
  (/\ analysis.done
   /\ analysis.route = "risk"
   /\ \A i \in DOMAIN analysis.history :
        i > 1 => analysis.history[i - 1] <= analysis.history[i])
  => analysis.reply.maxDrawdown = Num(0)

\* C16: max drawdown is the largest (peak - value) / peak over the series,
\* peak being the running maximum in chronological order, whatever the
\* order the route supplies the snapshots in; it is (120 - 80) / 120 for the
\* chronological values 100, 120, 80, 110.
C16_DrawdownFromChronologicalPeak ==
  (analysis.done /\ analysis.route = "risk") =>
    LET h == analysis.history
        Peak(i) == CHOOSE v \in {h[k] : k \in 1..i} :
                     \A k \in 1..i : h[k] <= v
        drawdowns == {Frac(Peak(i) - h[i], Peak(i)) :
                        i \in {k \in DOMAIN h : Peak(k) > 0}} \cup {Num(0)}
        largest == CHOOSE d \in drawdowns :
                     \A e \in drawdowns : ~RGt(e, d)
    IN  /\ analysis.reply.maxDrawdown = largest
        /\ h = DipHistory => analysis.reply.maxDrawdown = Frac(120 - 80, 120)

\* a constant series of positive values
ConstantPositive(h) ==
  \A i \in DOMAIN h : h[i] > 0 /\ h[i] = h[1]

\* C17 as stated: the Sharpe ratio is 0 for every constant-value snapshot
\* series of any length (0, 1, 2 or more snapshots of equal positive value).
C17_SharpeZeroWhenConstant ==
  (/\ analysis.done
   /\ analysis.route = "risk"
   /\ ConstantPositive(analysis.history))
  => analysis.reply.sharpeRatio = Plain(Num(0))

\* C17: the Sharpe ratio is 0 for every constant-value series of 3 or more
\* snapshots of equal positive value; a shorter series has fewer than 2
\* returns and the default deviation 0.15: the ratio is (0.08 - 0.05) / 0.15
\* with 0 or 1 snapshot and (0 - 0.05) / 0.15 with 2.
C17_SharpeOfConstantSeries ==
  (/\ analysis.done
   /\ analysis.route = "risk"
   /\ ConstantPositive(analysis.history))
  => analysis.reply.sharpeRatio =
       IF Len(analysis.history) >= 3 THEN Plain(Num(0))
       ELSE IF Len(analysis.history) = 2 THEN Plain(Frac(-1, 3))
            ELSE Plain(Frac(1, 5))

\* a risk analysis served for a constant series of 3 snapshots
C17_Witness ==
  /\ analysis.done
  /\ analysis.route = "risk"
  /\ ConstantPositive(analysis.history)
  /\ Len(analysis.history) = 3
  /\ analysis.reply.sharpeRatio = Plain(Num(0))

\* C18: the Sortino ratio of the risk analysis is 0 whenever the return
\* series holds no negative return.
C18_SortinoZeroWithoutDownside ==
  (/\ analysis.done
   /\ analysis.route = "risk"
   /\ Downside(calculateReturnsFromSnapshots(
                 FindSnapshots(analysis.history))) = <<>>)
  => analysis.reply.sortinoRatio = Plain(Num(0))

\* C19: for a snapshot series of length 0 or 1 the statistics are the
\* defaults, and a reply is made: expected return 0.08, standard deviation
\* 0.15, max drawdown 0.
C19_DefaultsOfShortSeries ==
  (sim.done /\ Len(sim.history) <= 1) =>
    /\ sim.reply.current.expectedReturn = Frac(8, 100)
    /\ sim.reply.current.standardDeviation = Plain(Frac(15, 100))
    /\ sim.reply.current.maxDrawdown = Num(0)

\* a reply made for a portfolio of positions with a single snapshot
C19_Witness ==
  /\ sim.done
  /\ Len(sim.history) = 1
  /\ sim.base # <<>>
  /\ sim.reply.current.expectedReturn = Frac(8, 100)

\* C20: no ratio the engine outputs is NaN or Infinity for non-negative
\* quantities, prices and values: the ratios of the risk analysis, and the
\* unrealized-gain percent of every lot of the tax-lot analysis (a cost
\* basis of 0 included).
C20_RatiosFinite ==
  analysis.done =>
    /\ analysis.route = "risk" =>
         /\ IsFiniteSurd(analysis.reply.volatility)
         /\ IsFiniteSurd(analysis.reply.sharpeRatio)
         /\ IsFiniteSurd(analysis.reply.sortinoRatio)
         /\ IsFinite(analysis.reply.maxDrawdown)
         /\ IsFinite(analysis.reply.beta)
         /\ IsFinite(analysis.reply.alpha)
    /\ analysis.route = "tax-lots" =>
         \A i \in DOMAIN analysis.reply.lots :
           IsFinite(analysis.reply.lots[i].unrealizedGainPercent)

\* ---------------------------------------------------- analysis properties
\* the sector groups and the asset-class groups a finished breakdown or
\* dashboard request replied with
SectorGroups ==
  IF analysis.route = "breakdown" THEN analysis.reply.bySector
  ELSE analysis.reply.sectorAllocation

AssetGroups ==
  IF analysis.route = "breakdown" THEN analysis.reply.byAssetType
  ELSE analysis.reply.assetAllocation

Allocated == analysis.done /\ analysis.route \in {"breakdown", "dashboard"}

WeightSum(groups) ==
  Sum([i \in DOMAIN groups |-> groups[i].weight], Len(groups))

\* the value of a position: its market value, else quantity times the
\* current price, else quantity times the average cost
FallbackValue(p) ==
  IF p.marketValue # Num(0) THEN p.marketValue
  ELSE IF p.currentPrice # Num(0)
         THEN RMul(Num(p.quantity), p.currentPrice)
         ELSE RMul(Num(p.quantity), p.avgCostBasis)

ValueOf(ps) == Sum([i \in DOMAIN ps |-> FallbackValue(ps[i])], Len(ps))

\* C21 (as stated): for every non-empty position set the sector weights
\* returned by calculateAllocations sum to 100, and so do the asset-class
\* weights.
C21_WeightsSumTo100 ==
  Allocated /\ analysis.holdings # <<>> =>
    /\ WeightSum(SectorGroups) = Num(100)
    /\ WeightSum(AssetGroups) = Num(100)

\* C21 (amended): the sector weights and the asset-class weights each sum
\* to 100 for every position set of total value above 0; when the total
\* value is 0 (no position, or positions valued 0 only) every weight is 0.
C21_WeightsOfValuedHoldings ==
  Allocated =>
    IF RGt(ValueOf(analysis.holdings), Num(0))
      THEN /\ WeightSum(SectorGroups) = Num(100)
           /\ WeightSum(AssetGroups) = Num(100)
      ELSE /\ \A i \in DOMAIN SectorGroups : SectorGroups[i].weight = Num(0)
           /\ \A i \in DOMAIN AssetGroups : AssetGroups[i].weight = Num(0)

\* a breakdown of three sectors, none of them the whole portfolio, whose
\* weights are 300/7, 300/7 and 100/7
C21_Witness ==
  /\ Allocated
  /\ analysis.route = "breakdown"
  /\ Len(SectorGroups) = 3
  /\ SectorGroups[1].weight = Frac(300, 7)
  /\ SectorGroups[3].weight = Frac(100, 7)
  /\ WeightSum(SectorGroups) = Num(100)

\* C22: allocation groups only active positions: a position with quantity 0
\* adds no value to any sector or asset-class group and does not cause a
\* group to appear in the result.
C22_OnlyActivePositionsGrouped ==
  Allocated =>
    LET active == SelectSeq(analysis.holdings, LAMBDA p : p.quantity > 0)
    IN  /\ \A i \in DOMAIN SectorGroups :
             /\ \E j \in DOMAIN active :
                  SectorOf(active[j]) = SectorGroups[i].name
             /\ SectorGroups[i].value =
                  ValueOf(SelectSeq(active,
                            LAMBDA p : SectorOf(p) = SectorGroups[i].name))
        /\ \A i \in DOMAIN AssetGroups :
             /\ \E j \in DOMAIN active :
                  formatAssetType(AssetTypeOf(active[j])) = AssetGroups[i].name
             /\ AssetGroups[i].value =
                  ValueOf(SelectSeq(active,
                            LAMBDA p : formatAssetType(AssetTypeOf(p))
                                         = AssetGroups[i].name))

\* C23: every total portfolio value the engine reports (KPI totalValue,
\* baseline totalValue, simulated totalValue) is the sum over the positions
\* of the market value, a position without a market value being valued at
\* quantity times the current price, else times the average cost; for the
\* simulated total the positions are the simulated ones.
C23_TotalValueWithFallback ==
  /\ analysis.done /\ analysis.route = "dashboard" =>
       analysis.reply.kpis.totalValue = ValueOf(analysis.holdings)
  /\ analysis.done /\ analysis.route = "simulate" =>
       /\ analysis.reply.current.totalValue = ValueOf(analysis.holdings)
       /\ analysis.reply.simulated.totalValue = ValueOf(analysis.result)

\* a simulation that adds to a portfolio of a position never valued (the
\* cost fallback) and one valued by a broker sync: the totals are 4 before
\* and more after
C23_Witness ==
  /\ analysis.done
  /\ analysis.route = "simulate"
  /\ Len(analysis.holdings) = 2
  /\ analysis.holdings[1].marketValue = Num(0)
  /\ analysis.holdings[1].currentPrice = Num(0)
  /\ analysis.holdings[1].avgCostBasis = Num(1)
  /\ analysis.holdings[1].quantity = 1
  /\ analysis.holdings[2].marketValue = Num(3)
  /\ analysis.changes # <<>>
  /\ analysis.changes[1].action = "add"
  /\ analysis.reply.current.totalValue = Num(4)
  /\ RGt(analysis.reply.simulated.totalValue, Num(4))

\* C24: the correlation matrix of a list of N tickers, duplicates included,
\* is N x N, has exactly 1 on every diagonal entry, is symmetric and has
\* every entry in [-1, 1].
C24_CorrelationMatrixShape ==
  analysis.done /\ analysis.route = "correlation" =>
    LET matrix == analysis.reply.matrix
        N == Len(analysis.tickers)
    IN  /\ DOMAIN matrix = 1..N
        /\ \A i \in 1..N :
             /\ DOMAIN matrix[i] = 1..N
             /\ matrix[i][i] = Num(1)
             /\ \A j \in 1..N :
                  /\ matrix[i][j] = matrix[j][i]
                  /\ IsFinite(matrix[i][j])
                  /\ ~RGt(matrix[i][j], Num(1))
                  /\ ~RGt(Num(-1), matrix[i][j])

\* a matrix of three tickers, the first listed twice, whose draws were not
\* all the same
C24_Witness ==
  /\ analysis.done
  /\ analysis.route = "correlation"
  /\ analysis.tickers = <<"AAA", "AAA", "BBB">>
  /\ analysis.reply.matrix[2][1] = Frac(3, 10)
  /\ analysis.reply.matrix[3][1] = Frac(1, 5)
  /\ analysis.reply.matrix[3][2] = Num(0)

\* C25: the breakdown emits a concentration alert exactly when the largest
\* sector weight exceeds 40, with severity high when that weight exceeds 50
\* and medium when it is above 40 and at most 50; for an empty position set
\* no alert is emitted.
C25_ConcentrationAlert ==
  analysis.done /\ analysis.route = "breakdown" =>
    LET bySector == analysis.reply.bySector
        alerts == analysis.reply.alerts
        Largest(w) == /\ \E i \in DOMAIN bySector : bySector[i].weight = w
                      /\ \A i \in DOMAIN bySector :
                           ~RGt(bySector[i].weight, w)
        exceeds40 == \E i \in DOMAIN bySector :
                       RGt(bySector[i].weight, Num(40))
    IN  /\ Len(alerts) = IF exceeds40 THEN 1 ELSE 0
        /\ analysis.holdings = <<>> => alerts = <<>>
        /\ \A k \in DOMAIN alerts :
             /\ alerts[k].type = "concentration"
             /\ Largest(alerts[k].weight)
             /\ alerts[k].severity = "high" <=>
                  RGt(alerts[k].weight, Num(50))
             /\ alerts[k].severity = "medium" <=>
                  ~RGt(alerts[k].weight, Num(50))
             /\ \E i \in DOMAIN bySector :
                  /\ bySector[i].name = alerts[k].sector
                  /\ bySector[i].weight = alerts[k].weight

\* two sectors of the same value: the largest weight is exactly 50 and the
\* alert is of medium severity
C25_Witness ==
  /\ analysis.done
  /\ analysis.route = "breakdown"
  /\ Len(analysis.reply.bySector) = 2
  /\ analysis.reply.bySector[1].weight = Num(50)
  /\ Len(analysis.reply.alerts) = 1
  /\ analysis.reply.alerts[1].severity = "medium"

\* ---------------------------------------------------- simulated metrics
\* C26: the simulated standard deviation is 0.95 times the baseline standard
\* deviation and the simulated expected return 1.02 times the baseline
\* expected return exactly when the simulated set holds a position with
\* isNew = true; when it holds none, both equal the baseline values.
C26_NewPositionAdjustment ==
  sim.done =>
    LET hasNew == \E i \in DOMAIN sim.result : sim.result[i].isNew
        current == sim.reply.current
        simulated == sim.reply.simulated
        reduced == Scale(current.standardDeviation, Frac(95, 100))
        raised == RMul(current.expectedReturn, Frac(102, 100))
    IN  /\ hasNew =>
             /\ simulated.standardDeviation = reduced
             /\ simulated.expectedReturn = raised
        /\ ~hasNew =>
             /\ simulated.standardDeviation = current.standardDeviation
             /\ simulated.expectedReturn = current.expectedReturn
        /\ current.standardDeviation.c # Num(0) =>
             (simulated.standardDeviation = reduced <=> hasNew)
        /\ current.expectedReturn # Num(0) =>
             (simulated.expectedReturn = raised <=> hasNew)

\* a simulation over a history with two returns that adds a ticker the
\* portfolio does not hold: both metrics are adjusted
C26_Witness ==
  /\ sim.done
  /\ sim.history = <<2, 1, 2>>
  /\ \E i \in DOMAIN sim.result : sim.result[i].isNew
  /\ \E i \in DOMAIN sim.result : ~sim.result[i].isNew
  /\ sim.reply.simulated.standardDeviation
       # sim.reply.current.standardDeviation
  /\ sim.reply.simulated.expectedReturn # sim.reply.current.expectedReturn
  /\ sim.reply.current.expectedReturn # Frac(2, 25)

\* ------------------------------------------------------- risk analysis
\* C27: the Value-at-Risk dollar amount of the risk analysis is the VaR
\* percent (the return at index floor(n * 0.05) of the ascending-sorted
\* returns, as a size) times the portfolio's current total market value, the
\* total computed with the same cost-basis fallback as totalValue.
C27_VaRAmountOfTotalValue ==
  analysis.done /\ analysis.route = "risk" =>
    LET var == RDiv(analysis.reply.valueAtRisk.percent, Num(100))
    IN  analysis.reply.valueAtRisk.amount
          = RMul(RAbs(var), ValueOf(analysis.holdings))

\* C28: the volatility of the risk analysis is the annualized standard
\* deviation of the metric set (the sample standard deviation of the returns
\* times the square root of 252, once): for the same snapshots it equals the
\* standardDeviation calculatePortfolioMetrics reports.
C28_VolatilityIsStandardDeviation ==
  analysis.done /\ analysis.route = "risk" =>
    \A rnd \in RandomStreams :
      analysis.reply.volatility
        = calculatePortfolioMetrics(Portfolio(analysis.holdings,
                                              analysis.history),
                                    rnd).standardDeviation

\* C29: the tax-lot analysis reports exactly the lots with remaining
\* quantity above 0, marks a lot long-term if and only if its holding period
\* in whole days is above 365 (365 days is short-term), and its summary
\* partitions them: shortTermQuantity + longTermQuantity is the sum of the
\* reported remaining quantities and totalUnrealizedGain is shortTermGain +
\* longTermGain.
C29_TaxLotAnalysis ==
  analysis.done /\ analysis.route = "tax-lots" =>
    LET ls == analysis.lots
        reported == analysis.reply.lots
        summary == analysis.reply.summary
        open == {i \in DOMAIN ls : ls[i].quantity - ls[i].soldQuantity > 0}
        Nth(k) == CHOOSE i \in open : Cardinality({j \in open : j <= i}) = k
        Of(longTerm, field) ==
          Sum([k \in DOMAIN reported |->
                 IF reported[k].isLongTerm = longTerm
                   THEN Num(reported[k][field]) ELSE Num(0)], Len(reported))
    IN  /\ Len(reported) = Cardinality(open)
        /\ \A k \in DOMAIN reported :
             /\ reported[k].quantity
                  = ls[Nth(k)].quantity - ls[Nth(k)].soldQuantity
             /\ reported[k].holdingDays = ls[Nth(k)].holdingDays
             /\ reported[k].costBasis = ls[Nth(k)].costBasis
             /\ reported[k].isLongTerm <=> reported[k].holdingDays > 365
        /\ Num(summary.shortTermQuantity) = Of(FALSE, "quantity")
        /\ Num(summary.longTermQuantity) = Of(TRUE, "quantity")
        /\ Num(summary.shortTermQuantity + summary.longTermQuantity)
             = Sum([k \in DOMAIN reported |-> Num(reported[k].quantity)],
                   Len(reported))
        /\ Num(summary.shortTermGain) = Of(FALSE, "unrealizedGain")
        /\ Num(summary.longTermGain) = Of(TRUE, "unrealizedGain")
        /\ summary.totalUnrealizedGain
             = summary.shortTermGain + summary.longTermGain

\* a priced position with a lot held 365 days and a lot held 366 days, the
\* first partly sold: one short-term and one long-term lot with gains
C29_Witness ==
  /\ analysis.done
  /\ analysis.route = "tax-lots"
  /\ analysis.currentPrice = 2
  /\ Len(analysis.lots) = 2
  /\ analysis.lots[1].holdingDays = 365
  /\ analysis.lots[1].soldQuantity = 1
  /\ analysis.lots[2].holdingDays = 366
  /\ Len(analysis.reply.lots) = 2
  /\ ~analysis.reply.lots[1].isLongTerm
  /\ analysis.reply.lots[2].isLongTerm
  /\ analysis.reply.summary.shortTermQuantity = 1
  /\ analysis.reply.summary.longTermQuantity > 0
  /\ analysis.reply.summary.shortTermGain > 0
  /\ analysis.reply.summary.longTermGain > 0

\* ------------------------------------------------- simulation, continued
\* the i-th change is a remove of a ticker that is in the map when the loop
\* reaches it: a ticker of the portfolio, or one an earlier add has set
RemoveApplied(i) ==
  /\ sim.changes[i].action = "remove"
  /\ \/ \E k \in DOMAIN sim.base :
          sim.base[k].ticker = ToUpperCase(sim.changes[i].ticker)
     \/ \E k \in 1..(i - 1) :
          /\ sim.changes[k].action = "add"
          /\ ToUpperCase(sim.changes[k].ticker)
               = ToUpperCase(sim.changes[i].ticker)

\* C30: within one change list, once a remove has been applied to a ticker
\* no later add or adjust of that ticker brings it back: the ticker is
\* absent from simulatedPositions and adds nothing to the simulated total
\* value, whatever quantity the later changes carry.
C30_RemovedStaysRemoved ==
  sim.done =>
    \A i \in DOMAIN sim.changes :
      RemoveApplied(i) =>
        LET ticker == ToUpperCase(sim.changes[i].ticker)
            others == SelectSeq(sim.result, LAMBDA p : p.ticker # ticker)
        IN  /\ \A k \in DOMAIN sim.result : sim.result[k].ticker # ticker
            /\ \A k \in DOMAIN sim.reply.simulatedPositions :
                 sim.reply.simulatedPositions[k].ticker # ticker
            /\ sim.reply.simulated.totalValue = ValueOf(others)

\* a remove of a held ticker followed by an add of the same ticker, with
\* another position left in the simulated set
C30_Witness ==
  /\ sim.done
  /\ Len(sim.base) = 2
  /\ Len(sim.changes) = 2
  /\ RemoveApplied(1)
  /\ sim.changes[2].action = "add"
  /\ sim.changes[2].quantity = 2
  /\ ToUpperCase(sim.changes[2].ticker) = ToUpperCase(sim.changes[1].ticker)
  /\ Len(sim.result) = 1
  /\ RGt(sim.reply.simulated.totalValue, Num(0))

====
